---- MODULE Spec2Model ----
(***************************************************************************)
(* Retryable batch-processing and content-chunking pipeline of scrape-ai.  *)
(*                                                                         *)
(* Three specifications share this module:                                 *)
(*   SpecRetry  Scraper.withRetry of the SDK (packages/sdk/src/sdk.ts)     *)
(*   SpecSum    summarizeContent of the CLI (ai.ts), with the chunker      *)
(*   Spec       summarizeBatch / processUrl of the CLI (index.ts)          *)
(* Texts are sequences of one-character strings, so that trimming and      *)
(* splitting are computed and not assumed.                                 *)
(***************************************************************************)
EXTENDS Integers, Sequences, FiniteSets, TLC

\* ------------------------------------------------------------------ bounds
MaxTextLen == 6
MaxAttempts == 4
MaxUrls == 3
MaxOps == 5
MaxCleanedLen == 52
MaxPageLinks == 4
MaxFollow == 3
\* URLs of one Scraper.scrapeBatch call
MaxSdkUrls == 3
\* concurrent scrape calls on one ScrapeEngine
MaxRequests == 2
\* summarizer operations handed to the limiter in one run
MaxCallOps == 3

\* ------------------------------------------------------- program constants
\* ai.ts: MAX_CHUNK_CHARS = MAX_CHUNK_TOKENS * CHARS_PER_TOKEN (32000 in the
\* source); scaled down so that texts of MaxTextLen characters take both the
\* single-chunk and the multi-chunk path.
MAX_CHUNK_CHARS == 2
\* sdk.ts: DEFAULT_RETRY.attempts
DEFAULT_RETRY_attempts == 3
\* sdk.ts: DEFAULT_RETRY.delay (1000 ms in the source, in units of 1000 ms)
DEFAULT_RETRY_delay == 1
\* index.ts / ai.ts: the fallback of `options.maxRetries || 3`
DEFAULT_MAX_RETRIES == 3

\* ------------------------------------------------------------------- texts
NL == "\n"
Alphabet == {"a", ".", NL}

RECURSIVE TextsOfLen(_)
TextsOfLen(n) ==
  IF n = 0 THEN {<<>>}
  ELSE {Append(t, c) : t \in TextsOfLen(n - 1), c \in Alphabet}

Texts == UNION {TextsOfLen(n) : n \in 0..MaxTextLen}

\* \s of the regular expressions
IsSpace(c) == c \in {" ", NL, "\t"}
\* [.!?] of the sentence regular expression
IsSentenceEnd(c) == c \in {".", "!", "?"}

RECURSIVE TrimLeft(_)
TrimLeft(s) ==
  IF s = <<>> THEN <<>>
  ELSE IF IsSpace(Head(s)) THEN TrimLeft(Tail(s)) ELSE s

RECURSIVE TrimRight(_)
TrimRight(s) ==
  IF s = <<>> THEN <<>>
  ELSE IF IsSpace(s[Len(s)]) THEN TrimRight(SubSeq(s, 1, Len(s) - 1)) ELSE s

\* String.prototype.trim
Trim(s) == TrimRight(TrimLeft(s))

\* the number of leading characters of s, from position p, satisfying Is
RECURSIVE RunNewlines(_, _)
RunNewlines(s, p) ==
  IF p > Len(s) \/ s[p] # NL THEN 0 ELSE 1 + RunNewlines(s, p + 1)

RECURSIVE RunSpaces(_, _)
RunSpaces(s, p) ==
  IF p > Len(s) \/ ~IsSpace(s[p]) THEN 0 ELSE 1 + RunSpaces(s, p + 1)

\* content.split(/\n\n+/): pieces between maximal runs of two or more newlines
RECURSIVE SplitParagraphsFrom(_, _, _)
SplitParagraphsFrom(s, p, cur) ==
  IF p > Len(s) THEN <<cur>>
  ELSE IF RunNewlines(s, p) >= 2
       THEN <<cur>> \o SplitParagraphsFrom(s, p + RunNewlines(s, p), <<>>)
       ELSE SplitParagraphsFrom(s, p + 1, Append(cur, s[p]))

SplitParagraphs(s) == SplitParagraphsFrom(s, 1, <<>>)

\* currentChunk.split(/(?<=[.!?])\s+/): pieces between maximal whitespace
\* runs that directly follow a sentence terminator
RECURSIVE SplitSentencesFrom(_, _, _)
SplitSentencesFrom(s, p, cur) ==
  IF p > Len(s) THEN <<cur>>
  ELSE IF p > 1 /\ IsSentenceEnd(s[p - 1]) /\ IsSpace(s[p])
       THEN <<cur>> \o SplitSentencesFrom(s, p + RunSpaces(s, p), <<>>)
       ELSE SplitSentencesFrom(s, p + 1, Append(cur, s[p]))

SplitSentences(s) == SplitSentencesFrom(s, 1, <<>>)

\* a chunk whose endChar is the offset of its last character
Chunk_endInclusive(c, idx, start) ==
  [content |-> c, index |-> idx, total |-> 0,
   startChar |-> start, endChar |-> start + Len(c) - 1]

\* ----------------------------------------------------------------- chunker
Chunk(c, idx, start) ==
  [content |-> c, index |-> idx, total |-> 0,
   startChar |-> start, endChar |-> start + Len(c)]

\* the inner loop `for (const sentence of sentences)`; st carries chunks,
\* currentStartChar, chunkIndex and sentenceChunk
RECURSIVE SentenceLoop(_, _, _)
SentenceLoop(sentences, k, st) ==
  IF k > Len(sentences) THEN st
  ELSE LET sentence == sentences[k]
       IN IF Len(st.sentenceChunk \o sentence) > MAX_CHUNK_CHARS
             /\ st.sentenceChunk # <<>>
          THEN SentenceLoop(sentences, k + 1,
                 [st EXCEPT
                    !.chunks = Append(@, Chunk(st.sentenceChunk, st.chunkIndex,
                                               st.currentStartChar)),
                    !.currentStartChar = @ + Len(st.sentenceChunk),
                    !.sentenceChunk = sentence,
                    !.chunkIndex = @ + 1])
          ELSE SentenceLoop(sentences, k + 1,
                 [st EXCEPT
                    !.sentenceChunk =
                       IF st.sentenceChunk # <<>>
                       THEN st.sentenceChunk \o <<" ">> \o sentence
                       ELSE sentence])

\* the outer loop `for (let i = 0; i < paragraphs.length; i++)`; st carries
\* chunks, currentChunk, currentStartChar and chunkIndex
RECURSIVE ParagraphLoop(_, _, _)
ParagraphLoop(paragraphs, i, st) ==
  IF i > Len(paragraphs) THEN st
  ELSE
    LET paragraph == paragraphs[i]
        potentialChunk == IF st.currentChunk # <<>>
                          THEN st.currentChunk \o <<NL, NL>> \o paragraph
                          ELSE paragraph
        st1 == IF Len(potentialChunk) > MAX_CHUNK_CHARS /\ st.currentChunk # <<>>
               THEN [st EXCEPT
                       !.chunks = Append(@, Chunk(st.currentChunk, st.chunkIndex,
                                                  st.currentStartChar)),
                       !.currentStartChar = @ + Len(st.currentChunk),
                       !.currentChunk = paragraph,
                       !.chunkIndex = @ + 1]
               ELSE [st EXCEPT !.currentChunk = potentialChunk]
        st2 == IF Len(st1.currentChunk) > MAX_CHUNK_CHARS
               THEN LET r == SentenceLoop(SplitSentences(st1.currentChunk), 1,
                                [chunks |-> st1.chunks,
                                 currentStartChar |-> st1.currentStartChar,
                                 chunkIndex |-> st1.chunkIndex,
                                 sentenceChunk |-> <<>>])
                    IN [chunks |-> r.chunks,
                        currentChunk |-> r.sentenceChunk,
                        currentStartChar |-> r.currentStartChar,
                        chunkIndex |-> r.chunkIndex]
               ELSE st1
    IN ParagraphLoop(paragraphs, i + 1, st2)

createContentChunks(content) ==
  IF Len(content) <= MAX_CHUNK_CHARS
  THEN << [content |-> content, index |-> 0, total |-> 1,
           startChar |-> 0, endChar |-> Len(content)] >>
  ELSE
    LET st == ParagraphLoop(SplitParagraphs(content), 1,
                [chunks |-> <<>>, currentChunk |-> <<>>,
                 currentStartChar |-> 0, chunkIndex |-> 0])
        chunks == IF st.currentChunk # <<>>
                  THEN Append(st.chunks, Chunk(st.currentChunk, st.chunkIndex,
                                               st.currentStartChar))
                  ELSE st.chunks
    IN [k \in 1..Len(chunks) |-> [chunks[k] EXCEPT !.total = Len(chunks)]]


\* ============================================================== variables
VARIABLES
  \* --- Scraper.withRetry (SpecRetry)
  rCfg,        \* the merged RetryConfig { ...this.config.retry, ...config }
  rPc,         \* "idle" | "loop" | "sleep" | "resolved" | "rejected"
  ri,          \* the loop variable i
  rLog,        \* outcome of every call of fn, in call order
  rSleeps,     \* every backoff sleep: after which attempt index, how long
  rLastError,  \* lastError
  rOut,        \* the value resolved with, or the error rejected with
  \* --- summarizeContent (SpecSum)
  content,         \* the text given to summarizeContent
  sMaxRetries,     \* options.maxRetries
  sPc,             \* "idle" | "start" | "direct" | "chunk" | "synth" | "returned" | "threw"
  chunks,          \* createContentChunks(content)
  sIdx,            \* position of the `for (const chunk of chunks)` loop, 1-based
  chunkSummaries,  \* chunkSummaries
  sAttempt,        \* attempts already made by the running retryWithBackoff
  sOps,            \* summarizeChunk / synthesizeChunkSummaries invocations, in order
  sCalls,          \* every generateText call, in order
  synthArg,        \* the chunkSummaries handed to synthesizeChunkSummaries
  sOut,            \* the text returned, or the error thrown
  \* --- summarizeBatch / processUrl (Spec)
  urls,            \* the input URL list
  options,         \* SummaryOptions: comparative, maxRetries
  bPc,             \* position of the batch run
  bi,              \* the loop variable i (number of URLs already consumed)
  results,         \* results
  processedCount,  \* processedCount
  browser,         \* ctx.browser: "none" | "open" | "closed"
  page,            \* ctx.page: "none" | "open" | "closed"
  attempt,         \* attempts already made by processUrl's retryWithBackoff
  retries,         \* the `retries` counter of processUrl
  navigated,       \* positions whose URL was handed to navigate
  modelCalled,     \* positions for which summarizeContent was called
  chainFailed,     \* positions whose processUrl ended in its catch handler
  delays,          \* positions after which BATCH_DELAY was slept
  comparativeCalls,   \* number of generateComparativeSummary calls
  comparativeArg,     \* the results handed to generateComparativeSummary
  comparativeSummary, \* comparativeSummary
  served,             \* URLs handed to processUrl on the page ctx.page holds
  refreshLog,         \* per memory refresh, in order: ctx.page was replaced
  \* --- RateLimiter (SpecLimiter)
  lNow,        \* the clock, in ticks of half a second
  lSubmitted,  \* number of execute() calls so far; operations are numbered
               \* 1, 2, ... in submission order
  lQueue,      \* operations waiting to begin, oldest first
  lStarts,     \* [op, at]: the operations that began, in the order they began
  lSettled,    \* outcome (TRUE: resolved) of operation k at position k, for
               \* the operations that settled
  \* --- error classification (SpecClassify)
  cPc,         \* "idle" | "call" | "done"
  cIn,         \* how the collaborator call ended: [kind, status, len, text]
  cOut,        \* [thrown, err]: the SummarizerError thrown, if any
  \* --- summarizeWebsite (SpecWeb)
  wUrl,          \* url
  wOptions,      \* options: [followLinks, saveToFile]
  wPc,           \* position in summarizeWebsite / withBrowser
  wBrowser,      \* the browser puppeteer.launch started:
                 \* "none" | "open" | "closed" | "killed"
  wCtx,          \* withBrowser's `ctx` is set (createBrowserContext resolved)
  wLaunches,     \* number of puppeteer.launch calls
  wThrown,       \* what was thrown inside withBrowser's try block, if anything
  wOut,          \* how the promise of summarizeWebsite settled
  wLinks,        \* links
  wLinkResults,  \* linkResults
  wPrinted,      \* console.log(output) of the primary page happened
  wSleeps,       \* positions of the links after which sleep(1000) ran
  \* --- scrapeController / tokenUsageController (SpecApi)
  aRoute,        \* "scrape" | "tokenUsage": the route of the request
  aBody,         \* req.body
  aPc,           \* "idle" | "start" | "scrape" | "generate" | "returned"
  aEngineCalls,  \* number of scrapeEngine.scrape calls
  aModelCalls,   \* number of generateText calls
  aResponses,    \* the res.json calls, in order
  aNext,         \* the errors handed to next(), in order
  \* --- Scraper.scrapeBatch (SpecSdk)
  qUrls,         \* urls
  qPc,           \* "idle" | "start" | "running" | "settled"
  qScrapes,      \* the URLs this.scrape was called with, in call order
  qTasks,        \* per position: attempts made and state of its scrape
  qOrder,        \* positions in the order their scrapes settled
  qOut,          \* the promise scrapeBatch returned
  \* --- ScrapeEngine (SpecEngine)
  eBrowser,      \* this.browser: 0 for null, else the number of a browser
  eLaunched,     \* number of browsers chromium.launch has started
  eClosed,       \* the browsers that were closed
  eShutdown,     \* closeBrowser: "off" | "no" | "closing" | "done"
  eReq,          \* per scrape call: position, browser it got, how it ended
  \* --- model calls behind the limiter (SpecCalls)
  mPc,           \* "off" | "idle" | "queued" | "calling" | "backoff"
  mPath,         \* the summarizer path of the operation in progress
  mAttempt,      \* attempts retryWithBackoff has made for it
  mWake,         \* when the backoff sleep in progress ends
  mCalls         \* the times at which generateText was called, in order

retryVars == <<rCfg, rPc, ri, rLog, rSleeps, rLastError, rOut>>
sumVars == <<content, sMaxRetries, sPc, chunks, sIdx, chunkSummaries, sAttempt,
             sOps, sCalls, synthArg, sOut>>
batchVars == <<urls, options, bPc, bi, results, processedCount, browser, page,
               attempt, retries, navigated, modelCalled, chainFailed, delays,
               comparativeCalls, comparativeArg, comparativeSummary,
               served, refreshLog>>
\* the part of the batch state only processUrl's entry and the refresh write
refreshVars == <<served, refreshLog>>
limVars == <<lNow, lSubmitted, lQueue, lStarts, lSettled>>
clsVars == <<cPc, cIn, cOut>>
callVars == <<mPc, mPath, mAttempt, mWake, mCalls>>
engVars == <<eBrowser, eLaunched, eClosed, eShutdown, eReq>>
sdkVars == <<qUrls, qPc, qScrapes, qTasks, qOrder, qOut>>
apiVars == <<aRoute, aBody, aPc, aEngineCalls, aModelCalls, aResponses, aNext>>
webVars == <<wUrl, wOptions, wPc, wBrowser, wCtx, wLaunches, wThrown, wOut, wLinks,
             wLinkResults, wPrinted, wSleeps>>
vars == <<retryVars, sumVars, batchVars, limVars, clsVars, webVars, apiVars, sdkVars, engVars, callVars>>

\* what the steps of one component leave alone: the other components
notRetryVars == <<sumVars, batchVars, limVars, clsVars, webVars, apiVars, sdkVars, engVars, callVars>>
notSumVars == <<retryVars, batchVars, limVars, clsVars, webVars, apiVars, sdkVars, engVars, callVars>>
notBatchVars == <<retryVars, sumVars, limVars, clsVars, webVars, apiVars, sdkVars, engVars, callVars>>
notLimVars == <<retryVars, sumVars, batchVars, clsVars, webVars, apiVars, sdkVars, engVars, callVars>>
notClsVars == <<retryVars, sumVars, batchVars, limVars, webVars, apiVars, sdkVars, engVars, callVars>>
notWebVars == <<retryVars, sumVars, batchVars, limVars, clsVars, apiVars, sdkVars, engVars, callVars>>
notApiVars == <<retryVars, sumVars, batchVars, limVars, clsVars, webVars, sdkVars, engVars, callVars>>
notSdkVars == <<retryVars, sumVars, batchVars, limVars, clsVars, webVars, apiVars, engVars, callVars>>
notEngVars == <<retryVars, sumVars, batchVars, limVars, clsVars, webVars, apiVars, sdkVars, callVars>>
\* the steps of a model call write the limiter and the call state
notCallVars == <<retryVars, sumVars, batchVars, clsVars, webVars, apiVars, sdkVars, engVars>>

\* ---------------------------------------------------------- optional values
Undefined == [has |-> FALSE, v |-> 0]
Some(x) == [has |-> TRUE, v |-> x]
\* destructuring default `x = d`
OrDefault(o, d) == IF o.has THEN o.v ELSE d

RECURSIVE Pow2(_)
Pow2(n) == IF n = 0 THEN 1 ELSE 2 * Pow2(n - 1)

\* ============================================ Scraper.withRetry (sdk.ts)
\* what fetchScrape can resolve with
FetchValues == {"rawA", "rawB"}

\* what fetchScrape can reject with: fetch itself rejecting, or the
\* EngineError thrown for a response that is not ok
NoError == [name |-> "none", status |-> 0]
FetchErrors ==
  { [name |-> "TypeError", status |-> 0],
    [name |-> "EngineError", status |-> 500],
    [name |-> "EngineError", status |-> 400] }

\* browser.ts navigate: the retryable flag given to an HTTP status
\* (429 and >= 500 retryable, any other status >= 400 fatal)
StatusRetryable(status) ==
  IF status = 429 THEN TRUE
  ELSE IF status >= 500 THEN TRUE
  ELSE IF status >= 400 THEN FALSE
  ELSE TRUE

attempts == OrDefault(rCfg.attempts, DEFAULT_RETRY_attempts)
delay == OrDefault(rCfg.delay, DEFAULT_RETRY_delay)
backoff == IF rCfg.backoff = "undefined" THEN "exponential" ELSE rCfg.backoff

\* a wait that ignores the configured policy
Wait_linear(i) == delay * (i + 1)

\* the backoff wait computed in the catch block for attempt index i
Wait(i) == IF backoff = "exponential" THEN delay * Pow2(i) ELSE delay * (i + 1)

RetryConfigs ==
  [attempts : {Undefined} \cup {Some(n) : n \in 0..MaxAttempts},
   delay : {Undefined, Some(2)},
   backoff : {"undefined", "linear", "exponential"}]

InitRetryIdle ==
  /\ rCfg = [attempts |-> Undefined, delay |-> Undefined, backoff |-> "undefined"]
  /\ rPc = "idle" /\ ri = 0 /\ rLog = <<>> /\ rSleeps = <<>>
  /\ rLastError = NoError
  /\ rOut = [kind |-> "none"]

InitRetry ==
  /\ rCfg \in RetryConfigs
  /\ rPc = "loop" /\ ri = 0 /\ rLog = <<>> /\ rSleeps = <<>>
  /\ rLastError = NoError
  /\ rOut = [kind |-> "none"]

\* a loop that records the resolved value but goes on to the next attempt
WithRetryResolve_continue ==
  /\ rPc = "loop" /\ ri < attempts
  /\ \E v \in FetchValues :
       rLog' = Append(rLog, [ok |-> TRUE, val |-> v, err |-> NoError])
  /\ rPc' = "loop"
  /\ ri' = ri + 1
  /\ UNCHANGED <<rCfg, rSleeps, rLastError, rOut>>
  /\ UNCHANGED notRetryVars

\* `return await fn()` with fn resolving
WithRetryResolve ==
  /\ rPc = "loop" /\ ri < attempts
  /\ \E v \in FetchValues :
       /\ rLog' = Append(rLog, [ok |-> TRUE, val |-> v, err |-> NoError])
       /\ rOut' = [kind |-> "value", val |-> v]
  /\ rPc' = "resolved"
  /\ UNCHANGED <<rCfg, ri, rSleeps, rLastError>>
  /\ UNCHANGED notRetryVars

\* fn rejecting: the catch block, up to the `await` of the backoff timer
WithRetryCatch ==
  /\ rPc = "loop" /\ ri < attempts
  /\ \E e \in FetchErrors :
       /\ rLog' = Append(rLog, [ok |-> FALSE, val |-> "none", err |-> e])
       /\ rLastError' = e
  /\ IF ri < attempts - 1
     THEN /\ rSleeps' = Append(rSleeps, [after |-> ri, wait |-> Wait(ri)])
          /\ rPc' = "sleep"
          /\ ri' = ri
     ELSE /\ rSleeps' = rSleeps
          /\ rPc' = "loop"
          /\ ri' = ri + 1
  /\ UNCHANGED <<rCfg, rOut>>
  /\ UNCHANGED notRetryVars

\* the backoff timer fires; the loop goes to its next iteration
WithRetryWake ==
  /\ rPc = "sleep"
  /\ rPc' = "loop"
  /\ ri' = ri + 1
  /\ UNCHANGED <<rCfg, rLog, rSleeps, rLastError, rOut>>
  /\ UNCHANGED notRetryVars

\* the loop is over: throw new EngineError(`Failed after ${attempts} ...`)
WithRetryThrow ==
  /\ rPc = "loop" /\ ~(ri < attempts)
  /\ rPc' = "rejected"
  /\ rOut' = [kind |-> "EngineError", attempts |-> attempts, cause |-> rLastError]
  /\ UNCHANGED <<rCfg, ri, rLog, rSleeps, rLastError>>
  /\ UNCHANGED notRetryVars

NextRetry ==
  \/ WithRetryResolve
  \/ WithRetryCatch
  \/ WithRetryWake
  \/ WithRetryThrow


\* ================================================= retryWithBackoff (utils)
\* utils.ts is not part of the available sources; the executor follows the
\* RetryPolicy contract: maxRetries bounds the number of attempts, 0 means
\* one attempt, a non-retryable error is propagated at once, and exhaustion
\* rejects with an aggregate error naming the operation and the last cause.
RetryBudget(maxRetries) == IF maxRetries = 0 THEN 1 ELSE maxRetries

\* what retryWithBackoff does after an attempt (made attempts so far,
\* the failed one included) failed with error e
RetryDecision(e, made, maxRetries) ==
  IF ~e.retryable THEN "propagate"
  ELSE IF made < RetryBudget(maxRetries) THEN "retry"
  ELSE "exhausted"

AggregateError(operation, e) ==
  [code |-> "RETRY_EXHAUSTED", retryable |-> FALSE,
   message |-> "Failed after retries: " \o operation, cause |-> e.code]

\* the error retryWithBackoff rejects with when it stops retrying
RetryRejection(operation, e, made, maxRetries) ==
  IF RetryDecision(e, made, maxRetries) = "propagate"
  THEN [code |-> e.code, retryable |-> e.retryable,
        message |-> e.message, cause |-> "none"]
  ELSE AggregateError(operation, e)

\* `options.maxRetries || 3`: undefined and 0 both fall back to 3
EffectiveMaxRetries(opt) ==
  IF ~opt.has \/ opt.v = 0 THEN DEFAULT_MAX_RETRIES ELSE opt.v

\* --max-retries as summarizeContent sees it: absent, or one retry
MaxRetriesOptions == {Undefined, Some(1)}

\* ===================================================== summarizeContent (ai.ts)
\* what generateText can resolve with; the first two are blank, the last
\* one changes under trim
ModelTexts == { <<>>, <<NL>>, <<"a">>, <<"a", NL>> }

\* a blank check that lets every text through
IsBlank_never(text) == FALSE

\* `!text || text.trim().length === 0`
IsBlank(text) == text = <<>> \/ Len(Trim(text)) = 0

\* generateText rejecting (transport, quota): a plain Error, retried
ModelError ==
  [code |-> "MODEL_ERROR", retryable |-> TRUE, message |-> "model call failed"]
\* new SummarizerError(..., 'EMPTY_SUMMARY', true)
EmptySummary(msg) ==
  [code |-> "EMPTY_SUMMARY", retryable |-> TRUE, message |-> msg]

\* one generateText call answering with a text of `texts`, or rejecting,
\* followed by the blank check of the wrapped operation: the text the
\* operation returns, or the error it throws
ModelCallOutcomesOf(texts, emptyMsg) ==
  {[ok |-> TRUE, text |-> t, err |-> ModelError] : t \in {x \in texts : ~IsBlank(x)}}
  \cup {[ok |-> FALSE, text |-> <<>>, err |-> EmptySummary(emptyMsg)] :
          t \in {x \in texts : IsBlank(x)}}
  \cup {[ok |-> FALSE, text |-> <<>>, err |-> ModelError]}

ModelCallOutcomes(emptyMsg) == ModelCallOutcomesOf(ModelTexts, emptyMsg)

NoOut == [kind |-> "none"]
TextOut(t) == [kind |-> "text", text |-> t]
ErrorOut(e) == [kind |-> "error", code |-> e.code, message |-> e.message,
                cause |-> e.cause]

InitSumIdle ==
  /\ content = <<>> /\ sMaxRetries = Undefined /\ sPc = "idle"
  /\ chunks = <<>> /\ sIdx = 0 /\ chunkSummaries = <<>> /\ sAttempt = 0
  /\ sOps = <<>> /\ sCalls = <<>> /\ synthArg = <<>> /\ sOut = NoOut

InitSum ==
  /\ content \in Texts
  /\ sMaxRetries \in MaxRetriesOptions
  /\ sPc = "start"
  /\ chunks = <<>> /\ sIdx = 0 /\ chunkSummaries = <<>> /\ sAttempt = 0
  /\ sOps = <<>> /\ sCalls = <<>> /\ synthArg = <<>> /\ sOut = NoOut

\* const chunks = createContentChunks(content); the branch on chunks.length
SummarizeContentStart ==
  /\ sPc = "start"
  /\ chunks' = createContentChunks(content)
  /\ IF Len(chunks') = 1
     THEN /\ sPc' = "direct"
          /\ sIdx' = 0
          /\ sOps' = <<[op |-> "direct", index |-> 0]>>
     ELSE IF Len(chunks') = 0
     THEN \* an empty loop, then synthesis over no summaries
          /\ sPc' = "synth"
          /\ sIdx' = 0
          /\ sOps' = <<[op |-> "synth", index |-> 0]>>
     ELSE /\ sPc' = "chunk"
          /\ sIdx' = 1
          /\ sOps' = <<[op |-> "chunk", index |-> chunks'[1].index]>>
  /\ sAttempt' = 0
  /\ UNCHANGED <<content, sMaxRetries, chunkSummaries, sCalls, synthArg, sOut>>
  /\ UNCHANGED notSumVars

\* the wrapped operation of one retryWithBackoff round, common to the three
\* paths: log the call, then return, retry or reject
ModelAttempt(kind, index, operation, emptyMsg, OnSuccess(_)) ==
  \E o \in ModelCallOutcomes(emptyMsg) :
    /\ sCalls' = Append(sCalls, [kind |-> kind, index |-> index, ok |-> o.ok,
                                 text |-> o.text])
    /\ IF o.ok
       THEN OnSuccess(o.text)
       ELSE LET made == sAttempt + 1
                budget == EffectiveMaxRetries(sMaxRetries)
            IN IF RetryDecision(o.err, made, budget) = "retry"
               THEN /\ sAttempt' = made
                    /\ UNCHANGED <<sPc, sIdx, chunkSummaries, sOps, synthArg, sOut>>
               ELSE /\ sPc' = "threw"
                    /\ sOut' = ErrorOut(RetryRejection(operation, o.err, made, budget))
                    /\ sAttempt' = made
                    /\ UNCHANGED <<sIdx, chunkSummaries, sOps, synthArg>>

\* a return that trims the model's text
DirectReturn_trimmed(text) ==
  /\ sPc' = "returned"
  /\ sOut' = TextOut(Trim(text))
  /\ UNCHANGED <<sIdx, chunkSummaries, sAttempt, sOps, synthArg>>

DirectReturn(text) ==
  /\ sPc' = "returned"
  /\ sOut' = TextOut(text)
  /\ UNCHANGED <<sIdx, chunkSummaries, sAttempt, sOps, synthArg>>

\* the single-chunk path: generateText with buildPrompt(content, options)
SummarizeDirect ==
  /\ sPc = "direct"
  /\ ModelAttempt("direct", 0, "Summarization",
                  "AI model returned empty response", DirectReturn)
  /\ UNCHANGED <<content, sMaxRetries, chunks>>
  /\ UNCHANGED notSumVars

\* a loop that starts the synthesis as soon as one chunk summary exists
ChunkReturn_partial(text) ==
  /\ chunkSummaries' = Append(chunkSummaries, text)
  /\ sAttempt' = 0
  /\ sIdx' = sIdx
  /\ sPc' = "synth"
  /\ sOps' = Append(sOps, [op |-> "synth", index |-> 0])
  /\ synthArg' = chunkSummaries'
  /\ UNCHANGED sOut

\* summarizeChunk resolved: chunkSummaries.push(summary), then the next
\* chunk or, after the last one, synthesizeChunkSummaries(chunkSummaries)
ChunkReturn(text) ==
  /\ chunkSummaries' = Append(chunkSummaries, text)
  /\ sAttempt' = 0
  /\ IF sIdx < Len(chunks)
     THEN /\ sIdx' = sIdx + 1
          /\ sPc' = "chunk"
          /\ sOps' = Append(sOps, [op |-> "chunk", index |-> chunks[sIdx + 1].index])
          /\ UNCHANGED synthArg
     ELSE /\ sIdx' = sIdx
          /\ sPc' = "synth"
          /\ sOps' = Append(sOps, [op |-> "synth", index |-> 0])
          /\ synthArg' = chunkSummaries'
  /\ UNCHANGED sOut

\* summarizeChunk: generateText with buildChunkPrompt(chunk.content, ...)
SummarizeChunk ==
  /\ sPc = "chunk"
  /\ ModelAttempt("chunk", chunks[sIdx].index, "Summarizing chunk",
                  "AI model returned empty response for chunk", ChunkReturn)
  /\ UNCHANGED <<content, sMaxRetries, chunks>>
  /\ UNCHANGED notSumVars

SynthReturn(text) ==
  /\ sPc' = "returned"
  /\ sOut' = TextOut(text)
  /\ UNCHANGED <<sIdx, chunkSummaries, sAttempt, sOps, synthArg>>

\* synthesizeChunkSummaries: generateText with buildSynthesisPrompt(...)
SynthesizeChunkSummaries ==
  /\ sPc = "synth"
  /\ ModelAttempt("synth", 0, "Synthesizing chunk summaries",
                  "AI model returned empty synthesis", SynthReturn)
  /\ UNCHANGED <<content, sMaxRetries, chunks>>
  /\ UNCHANGED notSumVars

NextSum ==
  \/ SummarizeContentStart
  \/ SummarizeDirect
  \/ SummarizeChunk
  \/ SynthesizeChunkSummaries



\* ===================================== summarizeBatch / processUrl (index.ts)
\* config.ts PROCESSING.MEMORY_REFRESH_INTERVAL (10 in the source); scaled
\* down so that a batch of MaxUrls URLs reaches a page refresh
MEMORY_REFRESH_INTERVAL == 2

Url(scheme, host) == [scheme |-> scheme, host |-> host]
\* one well-formed and one malformed URL: the code never looks at a URL
\* beyond isValidUrl, so a list is told apart by where its valid entries are
UrlValues == { Url("https", "a.com"), Url("", "not-a-url") }

\* utils.ts isValidUrl is not part of the available sources: a URL is valid
\* when it parses as http(s)://...
isValidUrl(u) == u.scheme \in {"http", "https"}

RECURSIVE SeqsOfLen(_, _)
SeqsOfLen(S, n) ==
  IF n = 0 THEN {<<>>}
  ELSE {Append(q, x) : q \in SeqsOfLen(S, n - 1), x \in S}

UrlLists == UNION {SeqsOfLen(UrlValues, n) : n \in 0..MaxUrls}

BatchRetryOptions == {Some(1), Some(2)}

UndefinedStr == [has |-> FALSE, v |-> ""]
SomeStr(x) == [has |-> TRUE, v |-> x]
\* JavaScript truthiness of an optional string: `!r.error`
Falsy(o) == ~o.has \/ o.v = ""

\* the error-tagged result of the invalid-URL branch and of the outer catch
ErrorResult(url, msg) ==
  [url |-> url, summary |-> <<>>, error |-> SomeStr(msg), retries |-> Undefined]

\* errors thrown by navigate (browser.ts), by their retryable flag
TimeoutErr ==
  [code |-> "TIMEOUT", retryable |-> TRUE,
   message |-> "Page load timeout - the website took too long to respond"]
NavigationFailed ==
  [code |-> "NAVIGATION_FAILED", retryable |-> TRUE,
   message |-> "Failed to navigate to URL"]
\* a status check without the 429 case
StatusError_no429(status) ==
  IF status >= 500
  THEN [code |-> "SERVER_ERROR", retryable |-> TRUE, message |-> "Server error"]
  ELSE [code |-> "HTTP_ERROR", retryable |-> FALSE, message |-> "HTTP error"]

\* the SummarizerError navigate throws for a response status, if any
StatusError(status) ==
  IF status = 429
  THEN [code |-> "RATE_LIMITED", retryable |-> TRUE, message |-> "Rate limited by server"]
  ELSE IF status >= 500
  THEN [code |-> "SERVER_ERROR", retryable |-> TRUE, message |-> "Server error"]
  ELSE [code |-> "HTTP_ERROR", retryable |-> FALSE, message |-> "HTTP error"]

NavStatuses == {200, 404, 503}

\* navigate(page, url): <<ok, error>> for every way page.goto can end
NavigateOutcomes ==
  IF page # "open"
  THEN {[ok |-> FALSE, err |-> NavigationFailed]}
  ELSE {[ok |-> st < 400, err |-> StatusError(st)] : st \in NavStatuses}
       \cup {[ok |-> FALSE, err |-> TimeoutErr]}

\* errors thrown by extractAndCleanText / extractMetadata (browser.ts)
NoContent ==
  [code |-> "NO_CONTENT", retryable |-> FALSE,
   message |-> "No meaningful content found on the page"]
TextExtractionFailed ==
  [code |-> "TEXT_EXTRACTION_FAILED", retryable |-> TRUE,
   message |-> "Failed to extract text content"]
ExtractErrors == {NoContent, TextExtractionFailed}

\* the model answers drawn in a batch run: one blank, one not
BatchModelTexts == { <<>>, <<"a">> }

\* summarizeContent as seen by its caller: it resolves with a model text
\* that passed the blank check, or rejects with what its retryWithBackoff
\* rejects with (classified either way by the outer executor)
SummarizeContentOutcomes ==
  {[ok |-> o.ok, text |-> o.text, err |-> ModelError] :
      o \in {x \in ModelCallOutcomesOf(BatchModelTexts,
                                       "AI model returned empty response") : x.ok}}
  \cup {[ok |-> FALSE, text |-> <<>>,
         err |-> [code |-> "RETRY_EXHAUSTED", retryable |-> r,
                  message |-> AggregateError("Summarization", ModelError).message]] :
          r \in BOOLEAN}

InitBatchIdle ==
  /\ urls = <<>> /\ options = [comparative |-> FALSE, maxRetries |-> Undefined]
  /\ bPc = "idle" /\ bi = 0 /\ results = <<>> /\ processedCount = 0
  /\ browser = "none" /\ page = "none" /\ attempt = 0 /\ retries = 0
  /\ navigated = {} /\ modelCalled = {} /\ chainFailed = {} /\ delays = <<>>
  /\ comparativeCalls = 0 /\ comparativeArg = <<>>
  /\ comparativeSummary = UndefinedStr
  /\ served = 0 /\ refreshLog = <<>>

InitBatch ==
  /\ urls \in UrlLists
  /\ options \in [comparative : BOOLEAN, maxRetries : BatchRetryOptions]
  /\ bPc = "launch" /\ bi = 0 /\ results = <<>> /\ processedCount = 0
  /\ browser = "none" /\ page = "none" /\ attempt = 0 /\ retries = 0
  /\ navigated = {} /\ modelCalled = {} /\ chainFailed = {} /\ delays = <<>>
  /\ comparativeCalls = 0 /\ comparativeArg = <<>>
  /\ comparativeSummary = UndefinedStr
  /\ served = 0 /\ refreshLog = <<>>

\* withBrowser: createBrowserContext() resolves
CreateBrowserContext ==
  /\ bPc = "launch"
  /\ browser' = "open" /\ page' = "open"
  /\ bPc' = "loop"
  /\ UNCHANGED <<urls, options, bi, results, processedCount, attempt, retries,
                 navigated, modelCalled, chainFailed, delays,
                 comparativeCalls, comparativeArg, comparativeSummary>>
  /\ UNCHANGED refreshVars
  /\ UNCHANGED notBatchVars

\* withBrowser: createBrowserContext() rejects with BROWSER_LAUNCH_FAILED,
\* which withBrowser rethrows; summarizeBatch rejects
CreateBrowserContextFails ==
  /\ bPc = "launch"
  /\ bPc' = "rejected"
  /\ UNCHANGED <<urls, options, bi, results, processedCount, browser, page,
                 attempt, retries, navigated, modelCalled, chainFailed, delays,
                 comparativeCalls, comparativeArg, comparativeSummary>>
  /\ UNCHANGED refreshVars
  /\ UNCHANGED notBatchVars

\* an invalid-URL branch that continues without pushing a result
BatchInvalidUrl_skip ==
  /\ bPc = "loop" /\ bi < Len(urls)
  /\ ~isValidUrl(urls[bi + 1])
  /\ bi' = bi + 1
  /\ UNCHANGED <<urls, options, bPc, results, processedCount, browser, page,
                 attempt, retries, navigated, modelCalled, chainFailed, delays,
                 comparativeCalls, comparativeArg, comparativeSummary>>
  /\ UNCHANGED refreshVars
  /\ UNCHANGED notBatchVars

\* an invalid-URL branch that hands the URL to processUrl all the same
BatchInvalidUrl_process ==
  /\ bPc = "loop" /\ bi < Len(urls)
  /\ ~isValidUrl(urls[bi + 1])
  /\ attempt' = 0 /\ retries' = 0
  /\ bPc' = "navigate"
  /\ UNCHANGED <<urls, options, bi, results, processedCount, browser, page,
                 navigated, modelCalled, chainFailed, delays,
                 comparativeCalls, comparativeArg, comparativeSummary>>
  /\ UNCHANGED refreshVars
  /\ UNCHANGED notBatchVars

\* the loop body for an invalid URL: push the error result and `continue`
BatchInvalidUrl ==
  /\ bPc = "loop" /\ bi < Len(urls)
  /\ ~isValidUrl(urls[bi + 1])
  /\ results' = Append(results, ErrorResult(urls[bi + 1], "Invalid URL format"))
  /\ bi' = bi + 1
  /\ UNCHANGED <<urls, options, bPc, processedCount, browser, page, attempt,
                 retries, navigated, modelCalled, chainFailed, delays,
                 comparativeCalls, comparativeArg, comparativeSummary>>
  /\ UNCHANGED refreshVars
  /\ UNCHANGED notBatchVars

\* the loop body for a valid URL: processUrl(url, options, ctx) is entered
\* (`let retries = 0`, then the first attempt of retryWithBackoff)
ProcessUrlEnter ==
  /\ bPc = "loop" /\ bi < Len(urls)
  /\ isValidUrl(urls[bi + 1])
  /\ attempt' = 0 /\ retries' = 0
  /\ served' = served + 1
  /\ bPc' = "navigate"
  /\ UNCHANGED refreshLog
  /\ UNCHANGED <<urls, options, bi, results, processedCount, browser, page,
                 navigated, modelCalled, chainFailed, delays,
                 comparativeCalls, comparativeArg, comparativeSummary>>
  /\ UNCHANGED notBatchVars

\* a loop body that sleeps after every processed URL, the last one included
AfterPush_sleepAlways(r) ==
  /\ results' = Append(results, r)
  /\ processedCount' = processedCount + 1
  /\ delays' = Append(delays, bi + 1)
  /\ IF processedCount' > 0
        /\ processedCount' % MEMORY_REFRESH_INTERVAL = 0
        /\ bi < Len(urls) - 1
     THEN bPc' = "refresh" /\ bi' = bi
     ELSE bPc' = "loop" /\ bi' = bi + 1

\* a loop body that never refreshes the page
AfterPush_noRefresh(r) ==
  /\ results' = Append(results, r)
  /\ processedCount' = processedCount + 1
  /\ delays' = IF bi < Len(urls) - 1 THEN Append(delays, bi + 1) ELSE delays
  /\ bPc' = "loop" /\ bi' = bi + 1

\* what follows results.push(result) in the loop body: processedCount++,
\* the inter-URL sleep and the decision to refresh the page
AfterPush(r) ==
  /\ results' = Append(results, r)
  /\ processedCount' = processedCount + 1
  /\ delays' = IF bi < Len(urls) - 1 THEN Append(delays, bi + 1) ELSE delays
  /\ IF processedCount' > 0
        /\ processedCount' % MEMORY_REFRESH_INTERVAL = 0
        /\ bi < Len(urls) - 1
     THEN bPc' = "refresh" /\ bi' = bi
     ELSE bPc' = "loop" /\ bi' = bi + 1

\* a processUrl without its catch handler, whose rejection ends the loop
AttemptFailed_abort(e) ==
  LET made == attempt + 1
      budget == EffectiveMaxRetries(options.maxRetries)
  IN /\ retries' = retries + 1
     /\ attempt' = made
     /\ IF RetryDecision(e, made, budget) = "retry"
        THEN /\ bPc' = "navigate"
             /\ UNCHANGED <<bi, results, processedCount, chainFailed, delays>>
        ELSE /\ chainFailed' = chainFailed \cup {bi + 1}
             /\ bPc' = "loop"
             /\ bi' = Len(urls)
             /\ UNCHANGED <<results, processedCount, delays>>

\* the attempt threw e: `retries++; throw error`, then retryWithBackoff
\* retries, or rejects and processUrl's catch handler builds the result
AttemptFailed(e) ==
  LET made == attempt + 1
      budget == EffectiveMaxRetries(options.maxRetries)
      operation == "Processing " \o urls[bi + 1].host
  IN /\ retries' = retries + 1
     /\ attempt' = made
     /\ IF RetryDecision(e, made, budget) = "retry"
        THEN /\ bPc' = "navigate"
             /\ UNCHANGED <<bi, results, processedCount, chainFailed, delays>>
        ELSE /\ chainFailed' = chainFailed \cup {bi + 1}
             /\ AfterPush([url |-> urls[bi + 1],
                           summary |-> <<>>,
                           error |-> SomeStr(RetryRejection(operation, e, made,
                                                            budget).message),
                           retries |-> IF retries' > 0 THEN Some(retries')
                                       ELSE Undefined])

\* one attempt: await navigate(ctx.page, url)
ProcessUrlNavigate ==
  /\ bPc = "navigate"
  /\ navigated' = navigated \cup {bi + 1}
  /\ \E o \in NavigateOutcomes :
       IF o.ok
       THEN /\ bPc' = "extract"
            /\ UNCHANGED <<bi, results, processedCount, attempt, retries,
                           chainFailed, delays>>
       ELSE AttemptFailed(o.err)
  /\ UNCHANGED <<urls, options, browser, page, modelCalled,
                 comparativeCalls, comparativeArg, comparativeSummary>>
  /\ UNCHANGED refreshVars
  /\ UNCHANGED notBatchVars

\* Promise.all([extractAndCleanText(ctx.page), extractMetadata(ctx.page)])
ProcessUrlExtract ==
  /\ bPc = "extract"
  /\ \/ /\ bPc' = "summarize"
        /\ UNCHANGED <<bi, results, processedCount, attempt, retries,
                       chainFailed, delays>>
     \/ \E e \in ExtractErrors : AttemptFailed(e)
  /\ UNCHANGED <<urls, options, browser, page, navigated, modelCalled,
                 comparativeCalls, comparativeArg, comparativeSummary>>
  /\ UNCHANGED refreshVars
  /\ UNCHANGED notBatchVars

\* summarizeContent(text, options), the plugin analysis (which never
\* rejects: Promise.allSettled) and the success result of the attempt
ProcessUrlSummarize ==
  /\ bPc = "summarize"
  /\ modelCalled' = modelCalled \cup {bi + 1}
  /\ \E o \in SummarizeContentOutcomes :
       IF o.ok
       THEN /\ AfterPush([url |-> urls[bi + 1],
                          summary |-> o.text,
                          error |-> UndefinedStr,
                          retries |-> IF retries > 0 THEN Some(retries)
                                      ELSE Undefined])
            /\ UNCHANGED <<attempt, retries, chainFailed>>
       ELSE AttemptFailed(o.err)
  /\ UNCHANGED <<urls, options, browser, page, navigated,
                 comparativeCalls, comparativeArg, comparativeSummary>>
  /\ UNCHANGED refreshVars
  /\ UNCHANGED notBatchVars

\* the memory refresh: page.close(), browser.newPage(), setUserAgent(), any
\* of which can throw into the catch that only warns
RefreshPage ==
  /\ bPc = "refresh"
  /\ \E outcome \in {"ok", "closeThrows", "newPageThrows", "userAgentThrows"} :
       /\ page' = CASE outcome = "ok" -> "open"
                    [] outcome = "closeThrows" -> page
                    [] outcome = "newPageThrows" -> "closed"
                    [] outcome = "userAgentThrows" -> "open"
       \* ctx.page holds a new page once browser.newPage() resolved
       /\ served' = IF outcome \in {"ok", "userAgentThrows"} THEN 0 ELSE served
       /\ refreshLog' = Append(refreshLog, outcome \in {"ok", "userAgentThrows"})
  /\ bPc' = "loop"
  /\ bi' = bi + 1
  /\ UNCHANGED <<urls, options, results, processedCount, browser, attempt,
                 retries, navigated, modelCalled, chainFailed, delays,
                 comparativeCalls, comparativeArg, comparativeSummary>>
  /\ UNCHANGED notBatchVars

\* the loop is over: withBrowser's finally closes the page and the browser
WithBrowserClose ==
  /\ bPc = "loop" /\ ~(bi < Len(urls))
  /\ page' = "closed" /\ browser' = "closed"
  /\ bPc' = "comparative"
  /\ UNCHANGED <<urls, options, bi, results, processedCount, attempt, retries,
                 navigated, modelCalled, chainFailed, delays,
                 comparativeCalls, comparativeArg, comparativeSummary>>
  /\ UNCHANGED refreshVars
  /\ UNCHANGED notBatchVars

\* a filter that keeps every result
Successful_all(rs) == rs

\* results.filter(r => !r.error)
Successful(rs) == SelectSeq(rs, LAMBDA r : Falsy(r.error))

\* `options.comparative && results.filter(r => !r.error).length >= 2`
ComparativeWanted == options.comparative /\ Len(Successful(results)) >= 2

\* generateComparativeSummary(results.filter(r => !r.error), options): it
\* resolves with a non-blank text or rejects into the catch that only logs;
\* then formatBatchOutput(results, comparativeSummary)
GenerateComparative ==
  /\ bPc = "comparative" /\ ComparativeWanted
  /\ comparativeCalls' = comparativeCalls + 1
  /\ comparativeArg' = Successful(results)
  /\ \E o \in SummarizeContentOutcomes :
       comparativeSummary' = IF o.ok THEN [has |-> TRUE, v |-> "text"]
                             ELSE UndefinedStr
  /\ bPc' = "done"
  /\ UNCHANGED <<urls, options, bi, results, processedCount, browser, page,
                 attempt, retries, navigated, modelCalled, chainFailed, delays>>
  /\ UNCHANGED refreshVars
  /\ UNCHANGED notBatchVars

\* no comparative analysis; formatBatchOutput(results, undefined)
SkipComparative ==
  /\ bPc = "comparative" /\ ~ComparativeWanted
  /\ bPc' = "done"
  /\ UNCHANGED <<urls, options, bi, results, processedCount, browser, page,
                 attempt, retries, navigated, modelCalled, chainFailed, delays,
                 comparativeCalls, comparativeArg, comparativeSummary>>
  /\ UNCHANGED refreshVars
  /\ UNCHANGED notBatchVars

NextBatch ==
  \/ CreateBrowserContext
  \/ CreateBrowserContextFails
  \/ BatchInvalidUrl
  \/ ProcessUrlEnter
  \/ ProcessUrlNavigate
  \/ ProcessUrlExtract
  \/ ProcessUrlSummarize
  \/ RefreshPage
  \/ WithBrowserClose
  \/ GenerateComparative
  \/ SkipComparative

\* ================================================ RateLimiter (utils.ts)
\* ai.ts: const rateLimiter = new RateLimiter(2, 1000)
maxRequests == 2
\* the window of 1000 ms, in ticks of half a second
windowMs == 2

\* the clock stops once every operation had a window of its own
MaxTime == MaxOps * windowMs

\* starts that fall in the window ending now
StartsInWindow ==
  {k \in 1..Len(lStarts) : lStarts[k].at > lNow - windowMs}

\* a limiter that bounds the operations in flight, not the starts per window
HasCapacity_inFlight == Len(lStarts) - Len(lSettled) < maxRequests

\* window capacity is free
HasCapacity == Cardinality(StartsInWindow) < maxRequests

InitLimIdle ==
  /\ lNow = 0 /\ lSubmitted = 0 /\ lQueue = <<>> /\ lStarts = <<>>
  /\ lSettled = <<>>

InitLim == InitLimIdle

\* execute(operation): the operation joins the queue
LimiterExecute ==
  /\ lSubmitted < MaxOps
  /\ lSubmitted' = lSubmitted + 1
  /\ lQueue' = Append(lQueue, lSubmitted')
  /\ UNCHANGED <<lNow, lStarts, lSettled>>
  /\ UNCHANGED notLimVars

\* the oldest queued operation begins once window capacity is free
LimiterRelease ==
  /\ Len(lQueue) > 0
  /\ HasCapacity
  /\ lStarts' = Append(lStarts, [op |-> Head(lQueue), at |-> lNow])
  /\ lQueue' = Tail(lQueue)
  /\ UNCHANGED <<lNow, lSubmitted, lSettled>>
  /\ UNCHANGED notLimVars

\* a rejection that also discards the operations still queued
LimiterSettle_dropsQueue ==
  \E ok \in BOOLEAN :
    /\ Len(lSettled) < Len(lStarts)
    /\ lSettled' = Append(lSettled, ok)
    /\ lQueue' = IF ok THEN lQueue ELSE <<>>
    /\ UNCHANGED <<lNow, lSubmitted, lStarts>>
    /\ UNCHANGED notLimVars

\* the oldest operation in flight resolves or rejects; its caller gets the
\* outcome
LimiterSettle ==
  \E ok \in BOOLEAN :
    /\ Len(lSettled) < Len(lStarts)
    /\ lSettled' = Append(lSettled, ok)
    /\ UNCHANGED <<lNow, lSubmitted, lQueue, lStarts>>
    /\ UNCHANGED notLimVars

\* time passes. A release that is due is not delayed, and the clock is
\* followed while the limiter has something to time: a start still inside
\* the window
LimiterTick ==
  /\ ~(Len(lQueue) > 0 /\ HasCapacity)
  /\ StartsInWindow # {}
  /\ lNow < MaxTime
  /\ lNow' = lNow + 1
  /\ UNCHANGED <<lSubmitted, lQueue, lStarts, lSettled>>
  /\ UNCHANGED notLimVars

NextLim ==
  \/ LimiterExecute
  \/ LimiterRelease
  \/ LimiterSettle
  \/ LimiterTick

\* ============================== error classification (browser.ts, ai.ts)
\* browser.ts extractAndCleanText: `cleaned.length < 50`
MinCleanedLength == 50

HttpStatuses == 100..599

NoResponse ==
  [code |-> "NO_RESPONSE", retryable |-> TRUE,
   message |-> "No response received from URL"]

NoThrow == [thrown |-> FALSE,
            err |-> [code |-> "none", retryable |-> FALSE, message |-> ""]]
Throw(e) == [thrown |-> TRUE, err |-> e]

ClassifyInput(kind, status, len, text) ==
  [kind |-> kind, status |-> status, len |-> len, text |-> text]

\* the ways page.goto, the text extraction and generateText can end
ClassifyInputs ==
  {ClassifyInput("goto", st, 0, <<>>) : st \in HttpStatuses}
  \cup {ClassifyInput(k, 0, 0, <<>>) :
          k \in {"gotoTimeout", "gotoError", "noResponse"}}
  \cup {ClassifyInput("extract", 0, n, <<>>) : n \in 0..MaxCleanedLen}
  \cup {ClassifyInput("extractError", 0, 0, <<>>)}
  \cup {ClassifyInput("model", 0, 0, t) : t \in ModelTexts}

InitClsIdle ==
  /\ cPc = "idle" /\ cIn = ClassifyInput("none", 0, 0, <<>>) /\ cOut = NoThrow

InitCls ==
  /\ cPc = "call" /\ cIn \in ClassifyInputs /\ cOut = NoThrow

\* navigate: what it throws for the way page.goto ended
ClassifyNavigate ==
  /\ cPc = "call"
  /\ cIn.kind \in {"goto", "gotoTimeout", "gotoError", "noResponse"}
  /\ cOut' = IF cIn.kind = "noResponse" THEN Throw(NoResponse)
             ELSE IF cIn.kind = "gotoTimeout" THEN Throw(TimeoutErr)
             ELSE IF cIn.kind = "gotoError" THEN Throw(NavigationFailed)
             ELSE IF cIn.status >= 400 THEN Throw(StatusError(cIn.status))
             ELSE NoThrow
  /\ cPc' = "done"
  /\ UNCHANGED cIn
  /\ UNCHANGED notClsVars

\* extractAndCleanText: the length check on the cleaned text, and the
\* wrapping of any other error
ClassifyExtract ==
  /\ cPc = "call"
  /\ cIn.kind \in {"extract", "extractError"}
  /\ cOut' = IF cIn.kind = "extractError" THEN Throw(TextExtractionFailed)
             ELSE IF cIn.len < MinCleanedLength THEN Throw(NoContent)
             ELSE NoThrow
  /\ cPc' = "done"
  /\ UNCHANGED cIn
  /\ UNCHANGED notClsVars

\* summarizeContent: the blank check on the model's text
ClassifyModel ==
  /\ cPc = "call"
  /\ cIn.kind = "model"
  /\ cOut' = IF IsBlank(cIn.text)
             THEN Throw(EmptySummary("AI model returned empty response"))
             ELSE NoThrow
  /\ cPc' = "done"
  /\ UNCHANGED cIn
  /\ UNCHANGED notClsVars

NextCls ==
  \/ ClassifyNavigate
  \/ ClassifyExtract
  \/ ClassifyModel

\* ============================================ summarizeWebsite (index.ts)
\* browser.ts extractLinks: `.slice(0, 20)`, scaled down so that a page of
\* MaxPageLinks links goes over the cap
LinkLimit == 3

\* an error value: whether it is a SummarizerError, and its code
WebError(isSummarizerError, code) ==
  [thrown |-> TRUE, summarizerError |-> isSummarizerError, code |-> code]
NoWebError == [thrown |-> FALSE, summarizerError |-> FALSE, code |-> ""]
\* an error that is not a SummarizerError (a puppeteer or model-client Error)
PlainError == WebError(FALSE, "")

\* what the awaited steps inside the withBrowser callback can reject with
NavigateRejections ==
  {WebError(TRUE, c) : c \in {"HTTP_ERROR", "TIMEOUT", "RATE_LIMITED",
                              "SERVER_ERROR", "NAVIGATION_FAILED", "NO_RESPONSE"}}
  \cup {PlainError}
ExtractRejections ==
  {WebError(TRUE, c) : c \in {"NO_CONTENT", "TEXT_EXTRACTION_FAILED",
                              "METADATA_EXTRACTION_FAILED"}}
  \cup {PlainError}
SummarizeRejections == {WebError(TRUE, "EMPTY_SUMMARY"), PlainError}
SaveRejections == {WebError(TRUE, "FILE_SAVE_FAILED")}

Min(a, b) == IF a < b THEN a ELSE b

\* extractLinks: the same-host links of the page, at most LinkLimit of them
LinksOf(n) == [k \in 1..Min(n, LinkLimit) |-> k]

\* links.slice(0, options.followLinks)
linksToProcess == SubSeq(wLinks, 1, Min(wOptions.followLinks.v, Len(wLinks)))

InitWebIdle ==
  /\ wUrl = Url("", "") /\ wOptions = [followLinks |-> Undefined, saveToFile |-> FALSE]
  /\ wPc = "idle" /\ wBrowser = "none" /\ wCtx = FALSE /\ wLaunches = 0
  /\ wThrown = NoWebError /\ wOut = [kind |-> "none", err |-> NoWebError]
  /\ wLinks = <<>> /\ wLinkResults = <<>> /\ wPrinted = FALSE /\ wSleeps = {}

InitWeb ==
  /\ wUrl \in UrlValues
  /\ wOptions \in [followLinks : {Undefined} \cup {Some(n) : n \in 0..MaxFollow},
                    saveToFile : BOOLEAN]
  /\ wPc = "start" /\ wBrowser = "none" /\ wCtx = FALSE /\ wLaunches = 0
  /\ wThrown = NoWebError /\ wOut = [kind |-> "none", err |-> NoWebError]
  /\ wLinks = <<>> /\ wLinkResults = <<>> /\ wPrinted = FALSE /\ wSleeps = {}

\* `if (!isValidUrl(url)) throw new SummarizerError(..., 'INVALID_URL', false)`
WebValidate ==
  /\ wPc = "start"
  /\ IF isValidUrl(wUrl)
     THEN /\ wPc' = "launch"
          /\ UNCHANGED wOut
     ELSE /\ wPc' = "rejected"
          /\ wOut' = [kind |-> "rejected", err |-> WebError(TRUE, "INVALID_URL")]
  /\ UNCHANGED <<wUrl, wOptions, wBrowser, wCtx, wLaunches, wThrown, wLinks,
                 wLinkResults, wPrinted, wSleeps>>
  /\ UNCHANGED notWebVars

\* withBrowser: ctx = await createBrowserContext(). puppeteer.launch rejects,
\* or it resolves and the set-up of the page (newPage, setUserAgent,
\* setRequestInterception, setViewport) rejects, or all of it resolves; both
\* rejections are rethrown as BROWSER_LAUNCH_FAILED and leave ctx null
WebLaunch ==
  /\ wPc = "launch"
  /\ wLaunches' = wLaunches + 1
  /\ \/ /\ wBrowser' = "open" /\ wCtx' = TRUE
        /\ wPc' = "navigate"
        /\ UNCHANGED wThrown
     \/ /\ wBrowser' = "none" /\ wCtx' = FALSE
        /\ wThrown' = WebError(TRUE, "BROWSER_LAUNCH_FAILED")
        /\ wPc' = "settle"
     \/ /\ wBrowser' = "open" /\ wCtx' = FALSE
        /\ wThrown' = WebError(TRUE, "BROWSER_LAUNCH_FAILED")
        /\ wPc' = "settle"
  /\ UNCHANGED <<wUrl, wOptions, wOut, wLinks, wLinkResults, wPrinted, wSleeps>>
  /\ UNCHANGED notWebVars

\* an awaited step of the callback at position `at`: it resolves and the
\* callback goes on to `next`, or it rejects and control leaves the callback
WebAwait(at, next, rejections) ==
  /\ wPc = at
  /\ \/ /\ wPc' = next
        /\ UNCHANGED wThrown
     \/ \E e \in rejections :
          /\ wThrown' = e
          /\ wPc' = "settle"

\* await retryWithBackoff(() => navigate(page, url))
WebNavigate ==
  /\ WebAwait("navigate", "extract", NavigateRejections)
  /\ UNCHANGED <<wUrl, wOptions, wBrowser, wCtx, wLaunches, wOut, wLinks,
                 wLinkResults, wPrinted, wSleeps>>
  /\ UNCHANGED notWebVars

\* await Promise.all([extractAndCleanText, extractMetadata])
WebExtract ==
  /\ WebAwait("extract", "links", ExtractRejections)
  /\ UNCHANGED <<wUrl, wOptions, wBrowser, wCtx, wLaunches, wOut, wLinks,
                 wLinkResults, wPrinted, wSleeps>>
  /\ UNCHANGED notWebVars

\* const links = options.followLinks ? await extractLinks(page, url) : []
WebExtractLinks ==
  /\ wPc = "links"
  /\ IF wOptions.followLinks.has /\ wOptions.followLinks.v # 0
     THEN \E n \in 0..MaxPageLinks : wLinks' = LinksOf(n)
     ELSE wLinks' = <<>>
  /\ wPc' = "summarize"
  /\ UNCHANGED <<wUrl, wOptions, wBrowser, wCtx, wLaunches, wThrown, wOut,
                 wLinkResults, wPrinted, wSleeps>>
  /\ UNCHANGED notWebVars

\* summary = await summarizeContent(text, options); console.log(output);
\* then the branch on `options.followLinks && links.length > 0`
WebSummarize ==
  /\ WebAwait("summarize",
              IF wOptions.followLinks.has /\ wOptions.followLinks.v # 0
                 /\ Len(wLinks) > 0
              THEN "linkloop" ELSE "save",
              SummarizeRejections)
  /\ wPrinted' = (wPc' # "settle")
  /\ UNCHANGED <<wUrl, wOptions, wBrowser, wCtx, wLaunches, wOut, wLinks,
                 wLinkResults, wSleeps>>
  /\ UNCHANGED notWebVars

\* a per-link step whose failure rejects instead of being tagged
WebProcessLink_rejects ==
  /\ wPc = "linkloop"
  /\ LET i == Len(wLinkResults) + 1
     IN \/ /\ wLinkResults' = Append(wLinkResults,
                                        [url |-> linksToProcess[i], error |-> FALSE])
           /\ wPc' = IF i < Len(linksToProcess) THEN "linksleep" ELSE "linksave"
           /\ UNCHANGED wThrown
        \/ /\ wThrown' = PlainError
           /\ wPc' = "settle"
           /\ UNCHANGED wLinkResults
  /\ UNCHANGED <<wUrl, wOptions, wBrowser, wCtx, wLaunches, wOut, wLinks,
                 wPrinted, wSleeps>>
  /\ UNCHANGED notWebVars

\* result = await processUrl(link, ...); linkResults.push(result): processUrl
\* resolves with a summary or with an error-tagged result, it never rejects
WebProcessLink ==
  /\ wPc = "linkloop"
  /\ LET i == Len(wLinkResults) + 1
     IN /\ \E failed \in BOOLEAN :
             wLinkResults' = Append(wLinkResults,
                                    [url |-> linksToProcess[i], error |-> failed])
        /\ wPc' = IF i < Len(linksToProcess) THEN "linksleep" ELSE "linksave"
  /\ UNCHANGED <<wUrl, wOptions, wBrowser, wCtx, wLaunches, wThrown, wOut, wLinks,
                 wPrinted, wSleeps>>
  /\ UNCHANGED notWebVars

\* `if (i < linksToProcess.length - 1) await sleep(1000)`
WebLinkSleep ==
  /\ wPc = "linksleep"
  /\ wSleeps' = wSleeps \cup {Len(wLinkResults)}
  /\ wPc' = "linkloop"
  /\ UNCHANGED <<wUrl, wOptions, wBrowser, wCtx, wLaunches, wThrown, wOut, wLinks,
                 wLinkResults, wPrinted>>
  /\ UNCHANGED notWebVars

\* formatBatchOutput(linkResults), and the save of the link report
WebSaveLinks ==
  /\ IF wOptions.saveToFile
     THEN WebAwait("linksave", "save", SaveRejections)
     ELSE wPc = "linksave" /\ wPc' = "save" /\ UNCHANGED wThrown
  /\ UNCHANGED <<wUrl, wOptions, wBrowser, wCtx, wLaunches, wOut, wLinks,
                 wLinkResults, wPrinted, wSleeps>>
  /\ UNCHANGED notWebVars

\* await saveToFileIfNeeded(output, options); the callback returns
WebSave ==
  /\ IF wOptions.saveToFile
     THEN WebAwait("save", "settle", SaveRejections)
     ELSE wPc = "save" /\ wPc' = "settle" /\ UNCHANGED wThrown
  /\ UNCHANGED <<wUrl, wOptions, wBrowser, wCtx, wLaunches, wOut, wLinks,
                 wLinkResults, wPrinted, wSleeps>>
  /\ UNCHANGED notWebVars

\* a catch block that rethrows whatever it caught
WithBrowserCatch_rethrow(e) == e

\* withBrowser's catch: a SummarizerError is rethrown, anything else is
\* wrapped
WithBrowserCatch(e) ==
  IF e.summarizerError THEN e ELSE WebError(TRUE, "BROWSER_OPERATION_FAILED")

\* withBrowser's catch and finally. With ctx set, ctx.browser.close()
\* resolves, or it rejects and the browser process is killed, or it rejects
\* and the kill is not possible (process() is null, or kill throws into the
\* catch that only warns); with ctx null the finally does nothing. Then the
\* promise settles
WebSettle ==
  /\ wPc = "settle"
  /\ IF wCtx
     THEN wBrowser' \in {"closed", "killed", "open"}
     ELSE wBrowser' = wBrowser
  /\ IF wThrown.thrown
     THEN /\ wPc' = "rejected"
          /\ wOut' = [kind |-> "rejected", err |-> WithBrowserCatch(wThrown)]
     ELSE /\ wPc' = "resolved"
          /\ wOut' = [kind |-> "resolved", err |-> NoWebError]
  /\ UNCHANGED <<wUrl, wOptions, wCtx, wLaunches, wThrown, wLinks, wLinkResults,
                 wPrinted, wSleeps>>
  /\ UNCHANGED notWebVars

NextWeb ==
  \/ WebValidate
  \/ WebLaunch
  \/ WebNavigate
  \/ WebExtract
  \/ WebExtractLinks
  \/ WebSummarize
  \/ WebProcessLink
  \/ WebLinkSleep
  \/ WebSaveLinks
  \/ WebSave
  \/ WebSettle

\* =============================== scrapeController / tokenUsageController (api)
\* a request body field that was not sent
NoUrl == [has |-> FALSE, v |-> Url("", "")]
SomeUrl(u) == [has |-> TRUE, v |-> u]

\* url: absent, the empty string, a string that does not parse, one that does
BodyUrls == {NoUrl, SomeUrl(Url("", "")), SomeUrl(Url("", "not-a-url")),
             SomeUrl(Url("https", "a.com"))}
BodyStrings == {UndefinedStr, SomeStr(""), SomeStr("x")}
BodyOutputs == {UndefinedStr, SomeStr("json"), SomeStr("xml"), SomeStr("csv")}
Routes == {"scrape", "tokenUsage"}
\* req.body; schema is an object or absent
Bodies == [url : BodyUrls, prompt : BodyStrings, schema : BOOLEAN,
           model : BodyStrings, output : BodyOutputs]

\* `!url` for a string: undefined and "" are falsy
FalsyUrl(u) == ~u.has \/ u.v = Url("", "")

\* `new URL(url)` accepts an absolute URL, whatever its scheme
UrlParses(u) == u.scheme # ""

ApiError(code, detail) == [code |-> code, detail |-> detail]
NoApiError == ApiError("", "")

\* a field check that asks for the model before the schema
MissingField_modelFirst(route, body) ==
  IF FalsyUrl(body.url) THEN "url"
  ELSE IF Falsy(body.prompt) THEN "prompt"
  ELSE IF route = "scrape" /\ Falsy(body.model) THEN "model"
  ELSE IF ~body.schema THEN "schema"
  ELSE ""

\* the field named by the first `if (!x) throw new MissingFieldError("x")`
\* that fires, "" when none does; tokenUsageController defaults the model
\* and does not check it
MissingField(route, body) ==
  IF FalsyUrl(body.url) THEN "url"
  ELSE IF Falsy(body.prompt) THEN "prompt"
  ELSE IF ~body.schema THEN "schema"
  ELSE IF route = "scrape" /\ Falsy(body.model) THEN "model"
  ELSE ""

\* what the validation part of a controller throws, if anything
ValidationThrow(route, body) ==
  IF MissingField(route, body) # ""
  THEN ApiError("MISSING_REQUIRED_FIELD", MissingField(route, body))
  ELSE IF ~UrlParses(body.url.v)
  THEN ApiError("INVALID_URL", body.url.v.host)
  ELSE NoApiError

\* `output = "json"` in the destructuring
EffectiveOutput(body) == IF body.output.has THEN body.output.v ELSE "json"

\* what scrapeEngine.scrape rejects with
EngineRejections ==
  {ApiError(c, "") : c \in {"BROWSER_LAUNCH_FAILED", "PAGE_TIMEOUT",
                            "CONTENT_EXTRACTION_FAILED", "PAGE_LOAD_FAILED"}}

\* the inner catch of scrapeController: an error whose message mentions
\* "google" or "model" becomes a ModelError, any other a GenerationError
GenerateRejection(mentionsModel) ==
  IF mentionsModel THEN ApiError("MODEL_ERROR", "")
  ELSE ApiError("GENERATION_FAILED", "")

InitApiIdle ==
  /\ aRoute = "none"
  /\ aBody = [url |-> NoUrl, prompt |-> UndefinedStr, schema |-> FALSE,
              model |-> UndefinedStr, output |-> UndefinedStr]
  /\ aPc = "idle" /\ aEngineCalls = 0 /\ aModelCalls = 0
  /\ aResponses = <<>> /\ aNext = <<>>

InitApi ==
  /\ aRoute \in Routes /\ aBody \in Bodies
  /\ aPc = "start" /\ aEngineCalls = 0 /\ aModelCalls = 0
  /\ aResponses = <<>> /\ aNext = <<>>

\* the destructuring, the field checks and validateUrl(url); a throw goes
\* to the outer catch, which calls next(error)
ControllerValidate ==
  /\ aPc = "start"
  /\ IF ValidationThrow(aRoute, aBody) # NoApiError
     THEN /\ aNext' = Append(aNext, ValidationThrow(aRoute, aBody))
          /\ aPc' = "returned"
     ELSE /\ aPc' = "scrape"
          /\ UNCHANGED aNext
  /\ UNCHANGED <<aRoute, aBody, aEngineCalls, aModelCalls, aResponses>>
  /\ UNCHANGED notApiVars

\* await scrapeEngine.scrape(...); tokenUsageController then computes the
\* estimate and answers with res.json
ControllerScrape ==
  /\ aPc = "scrape"
  /\ aEngineCalls' = aEngineCalls + 1
  /\ \/ /\ aRoute = "tokenUsage"
        /\ aResponses' = Append(aResponses, "tokens")
        /\ aPc' = "returned"
        /\ UNCHANGED aNext
     \/ /\ aRoute = "scrape"
        /\ aPc' = "generate"
        /\ UNCHANGED <<aResponses, aNext>>
     \/ \E e \in EngineRejections :
          /\ aNext' = Append(aNext, e)
          /\ aPc' = "returned"
          /\ UNCHANGED aResponses
  /\ UNCHANGED <<aRoute, aBody, aModelCalls>>
  /\ UNCHANGED notApiVars

\* scrapeController: await generateText(...), then the answer by output
\* format; the "xml" branch is empty
ControllerGenerate ==
  /\ aPc = "generate"
  /\ aModelCalls' = aModelCalls + 1
  /\ \/ /\ aResponses' = IF EffectiveOutput(aBody) = "xml" THEN aResponses
                         ELSE Append(aResponses, "data")
        /\ UNCHANGED aNext
     \/ \E mentionsModel \in BOOLEAN :
          /\ aNext' = Append(aNext, GenerateRejection(mentionsModel))
          /\ UNCHANGED aResponses
  /\ aPc' = "returned"
  /\ UNCHANGED <<aRoute, aBody, aEngineCalls>>
  /\ UNCHANGED notApiVars

NextApi ==
  \/ ControllerValidate
  \/ ControllerScrape
  \/ ControllerGenerate

\* ============================================== Scraper.scrapeBatch (sdk.ts)
\* the retry budget of the Scraper under test:
\* new Scraper({ retry: { attempts: 2, ... } })
SdkAttempts == 2

SdkHosts == {"a.com", "b.com"}
SdkUrlLists == UNION {SeqsOfLen(SdkHosts, n) : n \in 0..MaxSdkUrls}

\* the ScrapedData Scraper.scrape resolves with for the URL at position k;
\* `content` stands for what that call fetched
ScrapedData(url, k) == [url |-> url, content |-> k]

PendingTask == [made |-> 0, status |-> "pending"]

\* a Promise.all that collects the values in the order they arrive
PromiseAllValues_completionOrder(us, order) ==
  [j \in 1..Len(us) |-> ScrapedData(us[order[j]], order[j])]

\* Promise.all keeps the value of the promise at position k at position k
PromiseAllValues(us, order) ==
  [k \in 1..Len(us) |-> ScrapedData(us[k], k)]

InitSdkIdle ==
  /\ qUrls = <<>> /\ qPc = "idle" /\ qScrapes = <<>> /\ qTasks = <<>>
  /\ qOrder = <<>> /\ qOut = [kind |-> "none"]

InitSdk ==
  /\ qUrls \in SdkUrlLists /\ qPc = "start" /\ qScrapes = <<>> /\ qTasks = <<>>
  /\ qOrder = <<>> /\ qOut = [kind |-> "none"]

\* scrapeBatch(urls): urls.map(url => this.scrape(url, options)) starts one
\* scrape per entry before any of them settles; Promise.all of an empty
\* array resolves at once
ScrapeBatchCall ==
  /\ qPc = "start"
  /\ qScrapes' = qUrls
  /\ qTasks' = [k \in 1..Len(qUrls) |-> PendingTask]
  /\ IF Len(qUrls) = 0
     THEN qOut' = [kind |-> "resolved", values |-> <<>>] /\ qPc' = "settled"
     ELSE qOut' = [kind |-> "pending"] /\ qPc' = "running"
  /\ UNCHANGED <<qUrls, qOrder>>
  /\ UNCHANGED notSdkVars

\* an attempt of the scrape at position k fails: withRetry sleeps and tries
\* again, or after the last attempt throws, which rejects the scrape and,
\* if it is the first rejection, the Promise.all
SdkFetchFails(k) ==
  /\ qPc \in {"running", "settled"}
  /\ k \in 1..Len(qTasks) /\ qTasks[k].status = "pending"
  /\ IF qTasks[k].made + 1 < SdkAttempts
     THEN /\ qTasks' = [qTasks EXCEPT ![k].made = @ + 1]
          /\ UNCHANGED <<qOrder, qOut, qPc>>
     ELSE /\ qTasks' = [qTasks EXCEPT ![k] = [made |-> @.made + 1,
                                              status |-> "rejected"]]
          /\ qOrder' = Append(qOrder, k)
          /\ IF qOut.kind = "pending"
             THEN qOut' = [kind |-> "rejected", at |-> k] /\ qPc' = "settled"
             ELSE UNCHANGED <<qOut, qPc>>
  /\ UNCHANGED <<qUrls, qScrapes>>
  /\ UNCHANGED notSdkVars

\* an attempt of the scrape at position k succeeds and the scrape resolves;
\* when it is the last one outstanding and none rejected, the Promise.all
\* resolves
SdkFetchResolves(k) ==
  /\ qPc \in {"running", "settled"}
  /\ k \in 1..Len(qTasks) /\ qTasks[k].status = "pending"
  /\ qTasks' = [qTasks EXCEPT ![k] = [made |-> @.made + 1,
                                      status |-> "resolved"]]
  /\ qOrder' = Append(qOrder, k)
  /\ IF qOut.kind = "pending"
        /\ \A j \in 1..Len(qTasks) : qTasks'[j].status = "resolved"
     THEN /\ qOut' = [kind |-> "resolved",
                      values |-> PromiseAllValues(qUrls, qOrder')]
          /\ qPc' = "settled"
     ELSE UNCHANGED <<qOut, qPc>>
  /\ UNCHANGED <<qUrls, qScrapes>>
  /\ UNCHANGED notSdkVars

NextSdk ==
  \/ ScrapeBatchCall
  \/ \E k \in 1..MaxSdkUrls : SdkFetchFails(k)
  \/ \E k \in 1..MaxSdkUrls : SdkFetchResolves(k)

\* ================================================ ScrapeEngine (scrapeEngine.ts)
Requests == 1..MaxRequests

\* an error message as its words; `includes` looks for one of them
MessageIncludes(msg, w) == \E i \in 1..Len(msg) : msg[i] = w

EngineError(code, message, isContentExtraction) ==
  [code |-> code, message |-> message,
   isContentExtraction |-> isContentExtraction]
NoEngineError == EngineError("", <<>>, FALSE)

\* errors/ScrapingError.ts
ContentExtractionError ==
  EngineError("CONTENT_EXTRACTION_FAILED",
              <<"Failed", "to", "extract", "content", "from", "page">>, TRUE)
PageTimeoutError ==
  EngineError("PAGE_TIMEOUT", <<"Page", "load", "timeout", "after">>, FALSE)
PageLoadError ==
  EngineError("PAGE_LOAD_FAILED", <<"Failed", "to", "load", "page">>, FALSE)
BrowserLaunchError ==
  EngineError("BROWSER_LAUNCH_FAILED", <<"Failed", "to", "launch", "browser">>,
              FALSE)

\* what page.goto, page.waitForTimeout and page.content throw, by cause:
\* Playwright's TimeoutError, a navigation error, and a navigation error
\* whose message quotes a URL with the word timeout in it
PlaywrightTimeout == EngineError("", <<"Timeout", "30000ms", "exceeded">>, FALSE)
PageThrows ==
  { [cause |-> "timeout", err |-> PlaywrightTimeout],
    [cause |-> "other",
     err |-> EngineError("", <<"net::ERR_NAME_NOT_RESOLVED", "at", "url">>, FALSE)],
    [cause |-> "other",
     err |-> EngineError("", <<"net::ERR_ABORTED", "at", "url", "timeout">>, FALSE)] }
\* thrown by browser.newContext / context.newPage on a closed browser
TargetClosed == EngineError("", <<"Target", "closed">>, FALSE)

\* a catch block that wraps whatever is not a timeout
ScrapeCatch_wrapsAll(err) ==
  IF MessageIncludes(err.message, "Timeout")
       \/ MessageIncludes(err.message, "timeout")
  THEN PageTimeoutError
  ELSE PageLoadError

\* the catch block of scrape: what it throws for the error it caught
ScrapeCatch(err) ==
  IF MessageIncludes(err.message, "Timeout")
       \/ MessageIncludes(err.message, "timeout")
  THEN PageTimeoutError
  ELSE IF err.isContentExtraction THEN err
  ELSE PageLoadError

\* browsers are numbered in the order chromium.launch resolved
Launched == 1..eLaunched
\* browser.isConnected()
IsConnected(b) == b \in Launched /\ b \notin eClosed

IdleRequest == [pc |-> "idle", browser |-> 0, cause |-> "none",
                kind |-> "none", err |-> NoEngineError]

InitEngIdle ==
  /\ eBrowser = 0 /\ eLaunched = 0 /\ eClosed = {} /\ eShutdown = "off"
  /\ eReq = [r \in Requests |-> IdleRequest]

InitEng ==
  /\ eBrowser = 0 /\ eLaunched = 0 /\ eClosed = {} /\ eShutdown = "no"
  /\ eReq = [r \in Requests |-> IdleRequest]

Rejected(r, cause, err) ==
  [eReq EXCEPT ![r] = [pc |-> "settled", browser |-> @.browser,
                       cause |-> cause, kind |-> "rejected", err |-> err]]

\* scrape(request) is called and runs getBrowser up to its first await:
\* `if (!this.browser || !this.browser.isConnected())` starts a launch,
\* else this.browser is returned
EngineScrape(r) ==
  /\ eShutdown # "off" /\ eReq[r].pc = "idle"
  /\ IF eBrowser = 0 \/ ~IsConnected(eBrowser)
     THEN eReq' = [eReq EXCEPT ![r].pc = "launching"]
     ELSE eReq' = [eReq EXCEPT ![r].pc = "newContext", ![r].browser = eBrowser]
  /\ UNCHANGED <<eBrowser, eLaunched, eClosed, eShutdown>>
  /\ UNCHANGED notEngVars

\* getBrowser: `this.browser = await chromium.launch(...)` resolves and
\* the handle is overwritten, or it rejects with BrowserLaunchError
GetBrowserLaunch(r) ==
  /\ eReq[r].pc = "launching"
  /\ \/ /\ eLaunched' = eLaunched + 1
        /\ eBrowser' = eLaunched + 1
        /\ eReq' = [eReq EXCEPT ![r].pc = "newContext",
                                ![r].browser = eLaunched + 1]
     \/ /\ eReq' = Rejected(r, "launch", BrowserLaunchError)
        /\ UNCHANGED <<eBrowser, eLaunched>>
  /\ UNCHANGED <<eClosed, eShutdown>>
  /\ UNCHANGED notEngVars

\* browser.newContext(...) and context.newPage(), before the try block: a
\* rejection leaves scrape as it is
EngineNewContext(r) ==
  /\ eReq[r].pc = "newContext"
  /\ \/ /\ IsConnected(eReq[r].browser)
        /\ eReq' = [eReq EXCEPT ![r].pc = "goto"]
     \/ eReq' = Rejected(r, "setup", TargetClosed)
  /\ UNCHANGED <<eBrowser, eLaunched, eClosed, eShutdown>>
  /\ UNCHANGED notEngVars

\* page.goto and page.waitForTimeout inside the try block; a throw goes
\* through the catch block, then the finally closes page and context (both
\* close() calls of Playwright resolve, also on a closed target)
EngineGoto(r) ==
  /\ eReq[r].pc = "goto"
  /\ \/ /\ IsConnected(eReq[r].browser)
        /\ eReq' = [eReq EXCEPT ![r].pc = "content"]
     \/ \E t \in PageThrows : eReq' = Rejected(r, t.cause, ScrapeCatch(t.err))
  /\ UNCHANGED <<eBrowser, eLaunched, eClosed, eShutdown>>
  /\ UNCHANGED notEngVars

\* page.content() and the empty-HTML check, then the catch block for what
\* was thrown, then the finally
EngineContent(r) ==
  /\ eReq[r].pc = "content"
  /\ \/ /\ IsConnected(eReq[r].browser)
        /\ eReq' = [eReq EXCEPT ![r].pc = "settled", ![r].kind = "resolved"]
     \/ eReq' = Rejected(r, "emptyHtml", ScrapeCatch(ContentExtractionError))
     \/ \E t \in PageThrows : eReq' = Rejected(r, t.cause, ScrapeCatch(t.err))
  /\ UNCHANGED <<eBrowser, eLaunched, eClosed, eShutdown>>
  /\ UNCHANGED notEngVars

\* closeBrowser (called by shutdown): `await this.browser.close()`
CloseBrowserClose ==
  /\ eShutdown = "no"
  /\ IF eBrowser # 0
     THEN /\ eClosed' = eClosed \cup {eBrowser}
          /\ eShutdown' = "closing"
     ELSE /\ eShutdown' = "done"
          /\ UNCHANGED eClosed
  /\ UNCHANGED <<eBrowser, eLaunched, eReq>>
  /\ UNCHANGED notEngVars

\* closeBrowser: `this.browser = null` after the await
CloseBrowserReset ==
  /\ eShutdown = "closing"
  /\ eBrowser' = 0
  /\ eShutdown' = "done"
  /\ UNCHANGED <<eLaunched, eClosed, eReq>>
  /\ UNCHANGED notEngVars

NextEng ==
  \/ \E r \in Requests : EngineScrape(r)
  \/ \E r \in Requests : GetBrowserLaunch(r)
  \/ \E r \in Requests : EngineNewContext(r)
  \/ \E r \in Requests : EngineGoto(r)
  \/ \E r \in Requests : EngineContent(r)
  \/ CloseBrowserClose
  \/ CloseBrowserReset

\* ==================================== model calls behind the limiter (ai.ts)
\* every summarizer path has the same shape:
\*   rateLimiter.execute(() => retryWithBackoff(() => generateText(...), ...))
ModelPaths == {"direct", "chunk", "synthesis", "comparative"}

\* `baseDelay: options.retryDelay || 1000`, in ticks of half a second
ModelBaseDelay == 2

\* the sleep of retryWithBackoff after the failed attempt number
\* attemptIndex (0-indexed): baseDelay * 2^attemptIndex
BackoffDelay(baseDelay, attemptIndex) == baseDelay * Pow2(attemptIndex)

\* what an attempt can fail with: a blank text, or a rejection of generateText
ModelAttemptErrors == {EmptySummary("AI model returned empty response"), ModelError}

InitCallsIdle ==
  /\ mPc = "off" /\ mPath = "none" /\ mAttempt = 0 /\ mWake = 0 /\ mCalls = <<>>

InitCalls ==
  /\ mPc = "idle" /\ mPath = "none" /\ mAttempt = 0 /\ mWake = 0 /\ mCalls = <<>>

\* a summarizer path is entered: rateLimiter.execute(...) queues its
\* operation. The paths are awaited one after the other, so an operation is
\* submitted only when the one before it has settled
ModelExecute(path) ==
  /\ mPc = "idle" /\ lSubmitted < MaxCallOps
  /\ lSubmitted' = lSubmitted + 1
  /\ lQueue' = Append(lQueue, lSubmitted')
  /\ mPath' = path /\ mPc' = "queued" /\ mAttempt' = 0
  /\ UNCHANGED <<lNow, lStarts, lSettled, mWake, mCalls>>
  /\ UNCHANGED notCallVars

\* the limiter lets the operation begin: retryWithBackoff makes its first
\* attempt, which calls generateText
ModelRelease ==
  /\ mPc = "queued" /\ Len(lQueue) > 0 /\ HasCapacity
  /\ lStarts' = Append(lStarts, [op |-> Head(lQueue), at |-> lNow])
  /\ lQueue' = Tail(lQueue)
  /\ mCalls' = Append(mCalls, lNow)
  /\ mAttempt' = 1 /\ mPc' = "calling"
  /\ UNCHANGED <<lNow, lSubmitted, lSettled, mPath, mWake>>
  /\ UNCHANGED notCallVars

\* generateText resolves with a text that is not blank: the operation, and
\* with it the limiter's execute, resolves
ModelCallResolves ==
  /\ mPc = "calling"
  /\ lSettled' = Append(lSettled, TRUE)
  /\ mPc' = "idle"
  /\ UNCHANGED <<lNow, lSubmitted, lQueue, lStarts, mPath, mAttempt, mWake,
                 mCalls>>
  /\ UNCHANGED notCallVars

\* the attempt fails: retryWithBackoff sleeps before the next attempt, or
\* gives up and the operation rejects
ModelCallFails ==
  /\ mPc = "calling"
  /\ \E e \in ModelAttemptErrors :
       IF RetryDecision(e, mAttempt, EffectiveMaxRetries(Undefined)) = "retry"
       THEN /\ mWake' = lNow + BackoffDelay(ModelBaseDelay, mAttempt - 1)
            /\ mPc' = "backoff"
            /\ UNCHANGED lSettled
       ELSE /\ lSettled' = Append(lSettled, FALSE)
            /\ mPc' = "idle"
            /\ UNCHANGED mWake
  /\ UNCHANGED <<lNow, lSubmitted, lQueue, lStarts, mPath, mAttempt, mCalls>>
  /\ UNCHANGED notCallVars

\* the backoff sleep is over: the next attempt calls generateText, inside
\* the same execute
ModelRetry ==
  /\ mPc = "backoff" /\ lNow >= mWake
  /\ mCalls' = Append(mCalls, lNow)
  /\ mAttempt' = mAttempt + 1 /\ mPc' = "calling"
  /\ UNCHANGED <<lNow, lSubmitted, lQueue, lStarts, lSettled, mPath, mWake>>
  /\ UNCHANGED notCallVars

\* time passes, but not past a release or a wake-up that is due
ModelTick ==
  /\ mPc # "off" /\ lNow < MaxTime
  /\ ~(mPc = "queued" /\ HasCapacity)
  /\ ~(mPc = "backoff" /\ lNow >= mWake)
  /\ lNow' = lNow + 1
  /\ UNCHANGED <<lSubmitted, lQueue, lStarts, lSettled, mPc, mPath, mAttempt,
                 mWake, mCalls>>
  /\ UNCHANGED notCallVars

NextCalls ==
  \/ \E path \in ModelPaths : ModelExecute(path)
  \/ ModelRelease
  \/ ModelCallResolves
  \/ ModelCallFails
  \/ ModelRetry
  \/ ModelTick

\* ========================================================= specifications
Init == InitBatch /\ InitRetryIdle /\ InitSumIdle /\ InitLimIdle /\ InitClsIdle /\ InitWebIdle /\ InitApiIdle /\ InitSdkIdle /\ InitEngIdle /\ InitCallsIdle
Next == NextBatch
Spec == Init /\ [][Next]_vars

InitRetrySpec == InitRetry /\ InitSumIdle /\ InitBatchIdle /\ InitLimIdle /\ InitClsIdle /\ InitWebIdle /\ InitApiIdle /\ InitSdkIdle /\ InitEngIdle /\ InitCallsIdle
SpecRetry == InitRetrySpec /\ [][NextRetry]_vars

InitSumSpec == InitSum /\ InitRetryIdle /\ InitBatchIdle /\ InitLimIdle /\ InitClsIdle /\ InitWebIdle /\ InitApiIdle /\ InitSdkIdle /\ InitEngIdle /\ InitCallsIdle
SpecSum == InitSumSpec /\ [][NextSum]_vars

InitClsSpec == InitCls /\ InitRetryIdle /\ InitSumIdle /\ InitBatchIdle /\ InitLimIdle /\ InitWebIdle /\ InitApiIdle /\ InitSdkIdle /\ InitEngIdle /\ InitCallsIdle
SpecClassify == InitClsSpec /\ [][NextCls]_vars

InitWebSpec == InitWeb /\ InitRetryIdle /\ InitSumIdle /\ InitBatchIdle /\ InitLimIdle /\ InitClsIdle /\ InitApiIdle /\ InitSdkIdle /\ InitEngIdle /\ InitCallsIdle
SpecWeb == InitWebSpec /\ [][NextWeb]_vars

InitLimSpec == InitLim /\ InitRetryIdle /\ InitSumIdle /\ InitBatchIdle /\ InitClsIdle /\ InitWebIdle /\ InitApiIdle /\ InitSdkIdle /\ InitEngIdle /\ InitCallsIdle
SpecLimiter == InitLimSpec /\ [][NextLim]_vars

InitApiSpec == InitApi /\ InitRetryIdle /\ InitSumIdle /\ InitBatchIdle /\ InitLimIdle /\ InitClsIdle /\ InitWebIdle /\ InitSdkIdle /\ InitEngIdle /\ InitCallsIdle
SpecApi == InitApiSpec /\ [][NextApi]_vars

InitSdkSpec == InitSdk /\ InitRetryIdle /\ InitSumIdle /\ InitBatchIdle /\ InitLimIdle /\ InitClsIdle /\ InitWebIdle /\ InitApiIdle /\ InitEngIdle /\ InitCallsIdle
SpecSdk == InitSdkSpec /\ [][NextSdk]_vars

InitEngSpec == InitEng /\ InitRetryIdle /\ InitSumIdle /\ InitBatchIdle /\ InitLimIdle /\ InitClsIdle /\ InitWebIdle /\ InitApiIdle /\ InitSdkIdle /\ InitCallsIdle
SpecEngine == InitEngSpec /\ [][NextEng]_vars

InitCallsSpec == InitCalls /\ InitLim /\ InitRetryIdle /\ InitSumIdle /\ InitBatchIdle /\ InitClsIdle /\ InitWebIdle /\ InitApiIdle /\ InitSdkIdle /\ InitEngIdle
SpecCalls == InitCallsSpec /\ [][NextCalls]_vars
\* the event loop runs every timer and every queued release that is due
SpecLimiterLive ==
  InitLimSpec /\ [][NextLim]_vars
  /\ WF_vars(LimiterRelease) /\ WF_vars(LimiterTick)


\* ==================================================================== claims

\* ----------------------------------------------------------------------- C8
\* C8: a retry executor configured with k attempts calls the operation at
\* most k times, exactly k times when every attempt fails (it then rejects
\* with an error naming the attempt count and carrying the last attempt's
\* error as cause), and stops at the first successful attempt, whose value
\* it returns.
C8_AtMostKAttempts ==
  /\ Len(rLog) <= attempts
  /\ \A j \in 1..(Len(rLog) - 1) : ~rLog[j].ok
  /\ rPc = "rejected" =>
       /\ Len(rLog) = attempts
       /\ \A j \in 1..Len(rLog) : ~rLog[j].ok
       /\ rOut.kind = "EngineError"
       /\ rOut.attempts = attempts
       /\ Len(rLog) >= 1 => rOut.cause = rLog[Len(rLog)].err
  /\ rPc = "resolved" =>
       /\ rLog[Len(rLog)].ok
       /\ rOut = [kind |-> "value", val |-> rLog[Len(rLog)].val]
  /\ (\E j \in 1..Len(rLog) : rLog[j].ok) => rPc = "resolved"

\* the second of three attempts succeeded and ended the loop
C8_Witness ==
  /\ rPc = "resolved" /\ attempts = 3 /\ Len(rLog) = 2
  /\ ~rLog[1].ok /\ rLog[2].ok

\* ----------------------------------------------------------------------- C9
\* C9: with a retry budget of 0 the wrapped operation is attempted exactly
\* once and never retried.
C9_ZeroBudgetOneAttempt ==
  (rCfg.attempts = Some(0) /\ rPc \in {"resolved", "rejected"}) => Len(rLog) = 1

\* ---------------------------------------------------------------------- C10
\* C10: an attempt failing with a non-retryable error (an HTTP 4xx other
\* than 429) is the last attempt, and no backoff sleep follows it.
C10_NonRetryablePropagates ==
  \A j \in 1..Len(rLog) :
    (~rLog[j].ok /\ ~StatusRetryable(rLog[j].err.status)) =>
       /\ j = Len(rLog)
       /\ \A k \in 1..Len(rSleeps) : rSleeps[k].after < j - 1


\* ----------------------------------------------------------------------- C6
\* C6: on the multi-chunk path the per-chunk model calls are issued one at a
\* time in increasing chunk index order (a chunk is called again only after
\* its own failed attempt), synthesizeChunkSummaries is invoked exactly once
\* and only after every chunk summary has been obtained, receiving the
\* summaries in index order, and a chunk that fails all its retries fails
\* the operation without any synthesis call.
IsChunkCall(c) == c.kind = "chunk"
IsOkChunkCall(c) == c.kind = "chunk" /\ c.ok
IsSynthOp(o) == o.op = "synth"

C6_ChunksThenSynthesis ==
  (sPc \notin {"idle", "start"} /\ Len(chunks) > 1) =>
    LET n == Len(sCalls)
        okChunkCalls == SelectSeq(sCalls, IsOkChunkCall)
        synthOps == SelectSeq(sOps, IsSynthOp)
    IN
    \* the calls: chunk 0 first, then the same chunk after a failure, the
    \* next chunk after a success, the synthesis after the last chunk only
    /\ n >= 1 => (sCalls[1].kind = "chunk" /\ sCalls[1].index = 0)
    /\ \A j \in 1..(n - 1) :
         CASE sCalls[j].kind = "chunk" /\ ~sCalls[j].ok ->
                sCalls[j + 1].kind = "chunk" /\ sCalls[j + 1].index = sCalls[j].index
           [] sCalls[j].kind = "chunk" /\ sCalls[j].ok ->
                IF sCalls[j].index < Len(chunks) - 1
                THEN sCalls[j + 1].kind = "chunk"
                     /\ sCalls[j + 1].index = sCalls[j].index + 1
                ELSE sCalls[j + 1].kind = "synth"
           [] sCalls[j].kind = "synth" ->
                sCalls[j + 1].kind = "synth" /\ ~sCalls[j].ok
           [] OTHER -> FALSE
    \* the summaries: one per successful chunk call, in index order
    /\ Len(chunkSummaries) = Len(okChunkCalls)
    /\ \A j \in 1..Len(okChunkCalls) :
         /\ okChunkCalls[j].index = j - 1
         /\ chunks[j].index = j - 1
         /\ chunkSummaries[j] = okChunkCalls[j].text
    \* synthesizeChunkSummaries: at most once, last, over all the summaries
    /\ Len(synthOps) <= 1
    /\ Len(synthOps) = 1 <=> Len(chunkSummaries) = Len(chunks)
    /\ Len(synthOps) = 1 =>
         /\ sOps[Len(sOps)].op = "synth"
         /\ Len(sOps) = Len(chunks) + 1
         /\ synthArg = chunkSummaries
    /\ sPc = "returned" =>
         /\ Len(synthOps) = 1
         /\ sCalls[n].kind = "synth" /\ sCalls[n].ok
    \* a chunk out of retries: the operation fails, nothing was synthesized
    /\ (sPc = "threw" /\ Len(chunkSummaries) < Len(chunks)) =>
         /\ Len(synthOps) = 0
         /\ \A j \in 1..n : sCalls[j].kind = "chunk"

\* three chunks, one of them summarized at its second attempt, then the
\* synthesis returned
C6_Witness ==
  /\ sPc = "returned" /\ Len(chunks) = 3
  /\ Len(SelectSeq(sCalls, IsChunkCall)) = 4
  /\ Len(SelectSeq(sCalls, IsOkChunkCall)) = 3
  /\ chunkSummaries[1] # chunkSummaries[2]

\* ----------------------------------------------------------------------- C7
\* C7: for a text of at most MAX_CHUNK_CHARS characters, createContentChunks
\* returns the one chunk (index 0, total 1, startChar 0, endChar len) and
\* summarizeContent issues only calls with the direct prompt, no chunk or
\* synthesis call; when it returns, exactly one call succeeded and its text
\* is returned unchanged.
C7_ShortTextDirect ==
  (sPc \notin {"idle", "start"} /\ Len(content) <= MAX_CHUNK_CHARS) =>
    /\ chunks = << [content |-> content, index |-> 0, total |-> 1,
                    startChar |-> 0, endChar |-> Len(content)] >>
    /\ sOps = <<[op |-> "direct", index |-> 0]>>
    /\ \A j \in 1..Len(sCalls) : sCalls[j].kind = "direct"
    /\ \A j \in 1..(Len(sCalls) - 1) : ~sCalls[j].ok
    /\ sPc = "returned" =>
         /\ sCalls[Len(sCalls)].ok
         /\ sOut = TextOut(sCalls[Len(sCalls)].text)
    /\ (\E j \in 1..Len(sCalls) : sCalls[j].ok) => sPc = "returned"

\* a two-character text summarized at the second call, whose text has a
\* trailing newline
C7_Witness ==
  /\ sPc = "returned" /\ Len(content) = MAX_CHUNK_CHARS
  /\ Len(sCalls) = 2
  /\ sOut = TextOut(<<"a", NL>>)

C2_FailureIsolated ==
  /\ \A k \in 1..Len(results) :
       isValidUrl(urls[k]) =>
         /\ k \in navigated
         /\ (k \in chainFailed) <=> (results[k].error.has /\ results[k].error.v # "")
         /\ (k \in chainFailed) <=> (results[k].summary = <<>>)
  /\ chainFailed \subseteq 1..Len(results)
  /\ chainFailed # {} => bPc # "rejected"
  /\ bPc = "done" =>
       \A k \in 1..Len(urls) : isValidUrl(urls[k]) => k \in navigated

\* the first URL failed, the two after it were processed and succeeded
C2_Witness ==
  /\ bPc = "done" /\ Len(urls) = 3
  /\ chainFailed = {1} /\ navigated = {1, 2, 3}
  /\ ~results[2].error.has /\ ~results[3].error.has

\* ----------------------------------------------------------------------- C3
\* C3: the step taken for a syntactically invalid URL appends its
\* error-tagged result and does nothing else: no navigation or other browser
\* call, no attempt of the retry executor, no model call.
C3_InvalidUrlShortCircuits ==
  [][ (bPc = "loop" /\ bi < Len(urls) /\ ~isValidUrl(urls[bi + 1])) =>
        /\ results' = Append(results,
                        [url |-> urls[bi + 1], summary |-> <<>>,
                         error |-> SomeStr("Invalid URL format"),
                         retries |-> Undefined])
        /\ bPc' = "loop" /\ bi' = bi + 1
        /\ UNCHANGED <<browser, page, navigated, modelCalled, attempt, retries,
                       processedCount, chainFailed, delays>> ]_vars

\* a malformed URL between two processed ones was never navigated to
C3_Witness ==
  /\ bPc = "done" /\ Len(urls) = 3 /\ ~isValidUrl(urls[2])
  /\ navigated = {1, 3} /\ modelCalled = {1, 3}
  /\ results[2].error = SomeStr("Invalid URL format")

\* ----------------------------------------------------------------------- C4
\* C4: every BatchResult has exactly one of a non-empty summary and a
\* non-empty error.
Populated(r) == r.summary # <<>>
ErrorPopulated(r) == r.error.has /\ r.error.v # ""

C4_SummaryXorError ==
  \A k \in 1..Len(results) : Populated(results[k]) # ErrorPopulated(results[k])

\* a success, a malformed URL and a failed chain in one batch
C4_Witness ==
  /\ bPc = "done" /\ Len(results) = 3
  /\ Populated(results[1])
  /\ results[2].error = SomeStr("Invalid URL format")
  /\ 3 \in chainFailed /\ ErrorPopulated(results[3])

\* ----------------------------------------------------------------------- C5
\* C5: generateComparativeSummary is called only at the end of the run, at
\* most once, over exactly the results without an error in their order, and
\* it is called if and only if comparative analysis was requested and at
\* least two results have no error.
WithoutError(rs) == SelectSeq(rs, LAMBDA r : ~r.error.has)

C5_ComparativeIff ==
  /\ comparativeCalls <= 1
  /\ bPc # "done" => comparativeCalls = 0
  /\ bPc = "done" =>
       (comparativeCalls = 1) <=>
          (options.comparative /\ Len(WithoutError(results)) >= 2)
  /\ comparativeCalls = 1 => comparativeArg = WithoutError(results)

\* two of three results succeeded and were compared
C5_Witness ==
  /\ bPc = "done" /\ Len(results) = 3 /\ comparativeCalls = 1
  /\ Len(comparativeArg) = 2 /\ results[2].error.has

\* ---------------------------------------------------------------------- C11
\* C11: the retry executor sleeps exactly once after each failed attempt
\* that is not the last one, for baseDelay * 2^i (exponential) or
\* baseDelay * (i + 1) (linear) where i is the 0-based index of the failed
\* attempt; no sleep precedes the first attempt or follows the last one.
C11_BackoffDelays ==
  /\ Len(rSleeps) <= Len(rLog)
  /\ \A k \in 1..Len(rSleeps) :
       /\ rSleeps[k].after = k - 1
       /\ ~rLog[k].ok
       /\ k < attempts
       /\ rSleeps[k].wait = IF backoff = "exponential"
                            THEN delay * 2^(k - 1)
                            ELSE delay * k
  /\ \A j \in 1..Len(rLog) :
       (~rLog[j].ok /\ j < attempts) => Len(rSleeps) >= j
  /\ rPc = "sleep" => Len(rSleeps) = Len(rLog)
  /\ rPc \in {"resolved", "rejected"} =>
       Len(rSleeps) = Len(rLog) - 1 \/ (Len(rLog) = 0 /\ rSleeps = <<>>)

\* three failed attempts of four under the exponential policy with a base
\* delay of 2: the third sleep is 2 * 2^2
C11_Witness ==
  /\ backoff = "exponential" /\ delay = 2 /\ attempts = 4
  /\ Len(rSleeps) = 3 /\ rSleeps[3].wait = 8
  /\ rPc = "rejected"

\* ---------------------------------------------------------------------- C12
\* C12: in every window of windowMs at most maxRequests operations begin
\* execution; with (2, 1000 ms) and 5 operations submitted at t = 0, no more
\* than 2 begin before t = 1000 ms.
C12_AtMostMaxPerWindow ==
  \A t \in 0..MaxTime :
    Cardinality({k \in 1..Len(lStarts) :
                   lStarts[k].at >= t /\ lStarts[k].at < t + windowMs})
      <= maxRequests

\* five operations were submitted at t = 0; two began at once, the next two
\* when the window had passed, and the fifth still waits
C12_Witness ==
  /\ lNow = windowMs /\ lSubmitted = 5
  /\ Len(lStarts) = 4 /\ Len(lQueue) = 1
  /\ lStarts[2].at = 0 /\ lStarts[3].at = windowMs

\* ---------------------------------------------------------------------- C13
\* C13: the limiter neither drops nor reorders: every submitted operation
\* is waiting or has begun, operations begin in submission order, and every
\* submitted operation eventually begins, also behind a failed one.
Started(o) == \E k \in 1..Len(lStarts) : lStarts[k].op = o

C13_NoDropNoReorder ==
  /\ [](/\ \A k \in 1..Len(lStarts) : lStarts[k].op = k
        /\ \A k \in 1..Len(lQueue) : lQueue[k] = Len(lStarts) + k
        /\ Len(lStarts) + Len(lQueue) = lSubmitted)
  /\ \A o \in 1..MaxOps : (lSubmitted >= o) ~> Started(o)

\* the second operation began after the first one had rejected
C13_Witness ==
  /\ Len(lSettled) = 1 /\ ~lSettled[1]
  /\ Len(lStarts) >= 2 /\ lStarts[2].at > lStarts[1].at

\* ---------------------------------------------------------------------- C14
\* C14: the chunks of one split start at offset 0, each chunk ends where
\* the next one starts, indexes are 0, 1, 2, ... and every chunk's total is
\* the number of chunks.
Split == sPc \notin {"idle", "start"}

C14_ChunkOffsetsChain ==
  Split =>
    /\ Len(chunks) >= 1 => chunks[1].startChar = 0
    /\ \A i \in 1..(Len(chunks) - 1) :
         chunks[i].endChar = chunks[i + 1].startChar
    /\ \A i \in 1..Len(chunks) :
         /\ chunks[i].index = i - 1
         /\ chunks[i].total = Len(chunks)

\* a text split into three chunks, the last one made by the sentence loop
C14_Witness ==
  /\ Split /\ Len(chunks) = 3
  /\ Len(SplitParagraphs(content)) = 1
  /\ chunks[3].startChar > chunks[2].startChar

\* ---------------------------------------------------------------------- C15
\* C15: a split returns at least one chunk and the last chunk ends at the
\* length of the source text.
C15_ChunksCoverText ==
  Split =>
    /\ Len(chunks) >= 1
    /\ chunks[Len(chunks)].endChar = Len(content)

\* ---------------------------------------------------------------------- C16
\* C16: no chunk of a split is longer than MAX_CHUNK_CHARS.
C16_ChunkSizeBounded ==
  Split => \A i \in 1..Len(chunks) : Len(chunks[i].content) <= MAX_CHUNK_CHARS

\* ---------------------------------------------------------------------- C17
\* C17: a navigation timeout, HTTP 429, an HTTP status >= 500 and a blank
\* model output are thrown as retryable errors; an HTTP 4xx other than 429
\* and a cleaned text of fewer than 50 characters are thrown as fatal
\* errors; a status is retryable exactly when it is 429 or >= 500.
C17_Classification ==
  cPc = "done" =>
    /\ cIn.kind = "gotoTimeout" => (cOut.thrown /\ cOut.err.retryable)
    /\ (cIn.kind = "goto" /\ cIn.status >= 400) =>
         /\ cOut.thrown
         /\ cOut.err.retryable <=> (cIn.status = 429 \/ cIn.status >= 500)
    /\ (cIn.kind = "model" /\ Len(Trim(cIn.text)) = 0) =>
         (cOut.thrown /\ cOut.err.retryable)
    /\ (cIn.kind = "extract" /\ cIn.len < 50) =>
         (cOut.thrown /\ ~cOut.err.retryable)

\* a 429 answer was thrown as a retryable error
C17_Witness ==
  /\ cPc = "done" /\ cIn.kind = "goto" /\ cIn.status = 429
  /\ cOut.thrown /\ cOut.err.retryable /\ cOut.err.code = "RATE_LIMITED"

\* ---------------------------------------------------------------------- C18
\* C18: a single-URL run resolves, or rejects with one SummarizerError that
\* carries a code, whatever failed inside the run; a malformed URL is
\* rejected with INVALID_URL before any browser is launched.
C18_SingleCategorizedError ==
  /\ wPc = "rejected" =>
       /\ wOut.kind = "rejected"
       /\ wOut.err.thrown /\ wOut.err.summarizerError /\ wOut.err.code # ""
  /\ wPc = "resolved" => (wOut.kind = "resolved" /\ ~wThrown.thrown)
  /\ (wThrown.thrown /\ wPc # "settle") => wPc = "rejected"
  /\ wPc \notin {"rejected", "resolved"} => wOut.kind = "none"
  /\ (~isValidUrl(wUrl) /\ wPc \notin {"idle", "start"}) =>
       /\ wPc = "rejected" /\ wOut.err.code = "INVALID_URL"
       /\ wLaunches = 0 /\ wBrowser = "none"

\* an error that is not a SummarizerError was thrown after the launch and
\* the run rejected with the wrapping SummarizerError
C18_Witness ==
  /\ wPc = "rejected" /\ wLaunches = 1 /\ wBrowser = "closed"
  /\ ~wThrown.summarizerError
  /\ wOut.err.code = "BROWSER_OPERATION_FAILED"

\* ---------------------------------------------------------------------- C19
\* C19: with followLinks = n, min(n, number of extracted links) links are
\* processed, in order and one at a time; a failed link gives an
\* error-tagged result for that link, the links after it are still
\* processed, and the primary page's output, printed before the first link,
\* is not undone by a link failure: the run rejects after it only when a
\* file save fails.
FollowCount == Min(wOptions.followLinks.v, Len(wLinks))

C19_LinkFailuresIsolated ==
  /\ Len(wLinkResults) <= FollowCount
  /\ \A i \in 1..Len(wLinkResults) : wLinkResults[i].url = wLinks[i]
  /\ wSleeps = 1..(Len(wLinkResults) - 1)
       \/ (wPc = "linkloop" /\ wSleeps = 1..Len(wLinkResults))
  /\ Len(wLinkResults) > 0 => wPrinted
  /\ (wPrinted /\ wPc \in {"save", "resolved"}) => Len(wLinkResults) = FollowCount
  /\ (wPrinted /\ wPc = "rejected") =>
       /\ wOut.err.code = "FILE_SAVE_FAILED"
       /\ Len(wLinkResults) = FollowCount

\* two of three extracted links were followed; the first one failed, the
\* second one was processed all the same, and the run resolved
C19_Witness ==
  /\ wPc = "resolved" /\ wPrinted
  /\ wOptions.followLinks = Some(2) /\ Len(wLinks) = 3
  /\ Len(wLinkResults) = 2
  /\ wLinkResults[1].error /\ ~wLinkResults[2].error

InProcessUrl == bPc \in {"navigate", "extract", "summarize"}

ReportedAttempts(r) == r.retries.v + 1

\* the step in which processUrl settles and its result is pushed
ProcessUrlSettles ==
  /\ bPc \in {"navigate", "extract", "summarize"}
  /\ Len(results') = Len(results) + 1

\* the attempts retryWithBackoff made for the URL whose result is pushed:
\* the failed ones counted so far, plus the one that resolved
AttemptsMade == IF Falsy(results'[Len(results')].error) THEN attempt + 1
                ELSE attempt'

\* C21: a result pushed by processUrl carries a retries field only if a
\* second or later attempt was made for its URL, and the attempt count
\* formatBatchOutput reports from the field is the number of attempts made.
C21_RetriesOnlyIfRetried ==
  [][ ProcessUrlSettles =>
        LET r == results'[Len(results')]
        IN /\ r.retries.has => AttemptsMade >= 2
           /\ (r.retries.has /\ ~Falsy(r.error)) =>
                ReportedAttempts(r) = AttemptsMade ]_vars

\* ---------------------------------------------------------------------- C24
\* C24: once a scheduled page refresh has failed to replace the page, the
\* batch is not aborted and every further URL is processed on a page and a
\* browser that are still open.
C24_ContinuesOnOpenSession ==
  (\E k \in 1..Len(refreshLog) : ~refreshLog[k]) =>
     /\ bPc # "rejected"
     /\ InProcessUrl => (page = "open" /\ browser = "open")

\* ---------------------------------------------------------------------- C25
\* the positions 1..n of a list, in order
Positions(n) == [p \in 1..n |-> p]

\* one URL at a time: a URL is navigated to, and the model is called for
\* it, only after the result of every earlier URL has been pushed
OneAtATime ==
  \A p \in navigated \cup modelCalled : p <= Len(results) + 1

\* C25 as stated: URLs are processed one at a time and, when the loop is
\* over, BATCH_DELAY has been slept after every URL of the list but the last.
C25_DelayBetweenSuccessive ==
  /\ OneAtATime
  /\ bPc \in {"comparative", "done"} => delays = Positions(Len(urls) - 1)

\* C25 (amended): URLs are processed one at a time, and BATCH_DELAY has been
\* slept exactly after each URL that passed validation and is not the last
\* entry of the list: any two navigations are separated by a sleep, no sleep
\* follows an invalid URL, and none follows the last entry.
C25_DelayAfterEachProcessed ==
  /\ OneAtATime
  /\ delays = SelectSeq(Positions(Len(results)),
                        LAMBDA p : isValidUrl(urls[p]) /\ p < Len(urls))

\* valid, invalid, valid: one sleep, after the first URL only
C25_Witness ==
  /\ bPc = "done" /\ Len(urls) = 3
  /\ isValidUrl(urls[1]) /\ ~isValidUrl(urls[2]) /\ isValidUrl(urls[3])
  /\ delays = <<1>> /\ navigated = {1, 3}

\* ---------------------------------------------------------------------- C27
\* C27: when withBrowser has settled, resolved or rejected, a browser that
\* puppeteer.launch started is closed or was force-killed.
C27_BrowserClosedOnSettle ==
  wPc \in {"resolved", "rejected"} => wBrowser \in {"none", "closed", "killed"}

\* ---------------------------------------------------------------------- C22
\* the fields a route requires, in the order the claim names them
RequiredFields(route) ==
  IF route = "scrape" THEN <<"url", "prompt", "schema", "model">>
  ELSE <<"url", "prompt", "schema">>

\* a field of the body is missing: absent or empty
IsMissing(body, f) ==
  CASE f = "url" -> ~body.url.has \/ body.url.v.host = ""
    [] f = "prompt" -> ~body.prompt.has \/ body.prompt.v = ""
    [] f = "schema" -> ~body.schema
    [] f = "model" -> ~body.model.has \/ body.model.v = ""

\* positions of the required fields that are missing
MissingAt(route, body) ==
  {k \in 1..Len(RequiredFields(route)) : IsMissing(body, RequiredFields(route)[k])}

\* the error the claim expects for a request, NoApiError for a request that
\* passes validation
ExpectedValidationError(route, body) ==
  IF MissingAt(route, body) # {}
  THEN ApiError("MISSING_REQUIRED_FIELD",
         RequiredFields(route)[CHOOSE k \in MissingAt(route, body) :
                                 \A j \in MissingAt(route, body) : k <= j])
  ELSE IF body.url.v.scheme = "" THEN ApiError("INVALID_URL", body.url.v.host)
  ELSE NoApiError

\* C22: a request with a missing required field, or with a URL that does not
\* parse, gets next() called once with the MissingFieldError naming the first
\* missing field (url, prompt, schema, then model for /scrape) or with the
\* InvalidUrlError; the scrape engine and the model are never called and no
\* response is sent.
C22_ValidationErrors ==
  (aPc # "idle" /\ ExpectedValidationError(aRoute, aBody) # NoApiError) =>
     /\ aEngineCalls = 0 /\ aModelCalls = 0 /\ aResponses = <<>>
     /\ aPc \in {"start", "returned"}
     /\ aPc = "returned" => aNext = <<ExpectedValidationError(aRoute, aBody)>>

\* /scrape without schema and without model: the error names the schema
C22_Witness ==
  /\ aPc = "returned" /\ aRoute = "scrape"
  /\ ~FalsyUrl(aBody.url) /\ ~Falsy(aBody.prompt)
  /\ ~aBody.schema /\ Falsy(aBody.model)
  /\ aNext = <<ApiError("MISSING_REQUIRED_FIELD", "schema")>>
  /\ aEngineCalls = 0

\* ---------------------------------------------------------------------- C28
\* C28: when scrapeController has returned, exactly one terminal action was
\* taken for the request: one response sent, or one next(error).
C28_OneTerminalAction ==
  (aPc = "returned" /\ aRoute = "scrape") =>
     Len(aResponses) + Len(aNext) = 1

\* ---------------------------------------------------------------------- C23
\* C23: scrapeBatch(urls) calls scrape once per input URL, in input order;
\* it rejects only if one of these scrapes rejected, and when it resolves
\* its value holds exactly one result per input URL, the result at position
\* k being the one of the scrape for the URL at position k, whatever the
\* order in which the scrapes settled.
C23_OneResultPerUrlInOrder ==
  /\ qPc \in {"running", "settled"} =>
       (qScrapes = qUrls /\ Len(qTasks) = Len(qUrls))
  /\ qOut.kind = "rejected" =>
       \E k \in 1..Len(qTasks) : qTasks[k].status = "rejected"
  /\ (qPc \in {"running", "settled"}
        /\ \A k \in 1..Len(qTasks) : qTasks[k].status = "resolved") =>
       /\ qOut.kind = "resolved"
       /\ Len(qOut.values) = Len(qUrls)
       /\ \A k \in 1..Len(qUrls) :
            /\ qOut.values[k].url = qUrls[k]
            /\ qOut.values[k].content = k

\* three scrapes settled in the reverse of the input order, the last of
\* them after a retry, and the batch resolved
C23_Witness ==
  /\ qOut.kind = "resolved" /\ qUrls = <<"a.com", "b.com", "a.com">>
  /\ qOrder = <<3, 2, 1>> /\ qTasks[1].made = 2

\* ---------------------------------------------------------------------- C29
\* the browsers that are running
LiveBrowsers == {b \in Launched : b \notin eClosed}

\* C29: whatever the interleaving of the scrape calls on one engine, at most
\* one launched browser is running at a time and it is the one this.browser
\* refers to, so that closeBrowser closes it.
C29_SingleBrowserNoOrphan ==
  /\ Cardinality(LiveBrowsers) <= 1
  /\ \A b \in LiveBrowsers : eBrowser = b

CallsInWindow(t) ==
  {i \in 1..Len(mCalls) : mCalls[i] > t - windowMs /\ mCalls[i] <= t}

\* C26: counting every attempt of every summarizer path, at most
\* maxRequests model calls begin in any window of windowMs.
C26_ModelCallsPerWindow ==
  \A t \in 0..lNow : Cardinality(CallsInWindow(t)) <= maxRequests

====
